---- MODULE Spec2Model ----
(***************************************************************************)
(* Verification model of tcg-cardgen: the template Manager (search tiers,  *)
(* extends resolution, merge, cache) of internal/templates/template.go,    *)
(* the renderer: variable substitution, conditions, the layer pass of      *)
(* RenderCard, image fallback and image fitting; the card parser, the      *)
(* namespace of a card, ValidateCard, the markdown and word-wrap text      *)
(* processing, and the walk of main over a directory of cards.             *)
(***************************************************************************)
EXTENDS Integers, Sequences, FiniteSets, TLC

VARIABLES
    fs,                 \* template files on disk: path -> file content
    builtinTemplates,   \* the embedded builtin/* file set (fixed at build time)
    customTemplateDir,  \* Manager.customTemplateDir
    templates,          \* Manager.templates: cache key -> resolved template
    ret,                \* what the last LoadTemplate call returned
    crashed,            \* the process died (stack overflow, fatal map race)
    mBase, mExtended, mResult,   \* arguments and result of one mergeTemplates call
    pc, found,                   \* workers sharing one Manager: position, locals
    templateVars,       \* the flattened namespace of one render: key -> value
    substText, substituted,  \* SubstituteVariables: its input and what calls returned
    condExpr, holds,    \* EvaluateCondition: its input and what the call returned
    cardLayers, images, \* RenderCard: the template's layers, the loadable images
    layerIdx, canvas, saved, renderErr,   \* RenderCard: position, draws, outcome
    fitImg, fitRegion, fitted,  \* CreateFittedImage: image size, region, result
    genFile, card, cardTemplate, \* GenerateCard: the card file, the parsed Card, its template
    stage, genErr,      \* GenerateCard: how far the call got, the error it returned
    dcSize,             \* RenderCard: width and height of the drawing context
    srcText, parsed,    \* TextProcessor: the text given and what the call returned
    wrapIn, wrapOut,    \* wrapFormattedSegments: the runs and width, the lines returned
    walk                \* processDirectory: the files of the walk and what was done

mgrVars == <<fs, builtinTemplates, customTemplateDir, templates, ret, crashed>>
mergeVars == <<mBase, mExtended, mResult>>
concVars == <<pc, found>>
substVars == <<substText, substituted>>
condVars == <<condExpr, holds>>
renderVars == <<cardLayers, images, layerIdx, canvas, saved, renderErr>>
fitVars == <<fitImg, fitRegion, fitted>>
genVars == <<genFile, card, cardTemplate, stage, genErr, dcSize>>
textVars == <<srcText, parsed, wrapIn, wrapOut>>
cardVars == <<genVars, textVars, walk>>
rendVars == <<templateVars, substVars, condVars, renderVars, fitVars, cardVars>>
vars == <<mgrVars, mergeVars, concVars, rendVars>>

-----------------------------------------------------------------------------
(* Bounds of the model *)

\* recursion depth at which a load is declared to have overflowed the stack
MaxDepth == 4
\* template files on disk when the Manager is created
MaxFiles == 2
\* lengths of the layer lists given to mergeTemplates
MaxBaseLayers == 2
MaxExtLayers == 1
MaxOverrides == 1
MaxAddLayers == 1

-----------------------------------------------------------------------------
(* Template data: Layer, LayerOverride, Dimensions, Template *)

NoRegion == [x |-> 0, y |-> 0, width |-> 0, height |-> 0]

Layer(name, type, source, region) ==
    [name |-> name, role |-> "", type |-> type, source |-> source,
     content |-> "", region |-> region, font |-> "", fit_mode |-> "",
     icon_replace |-> FALSE, strip_headers |-> FALSE, condition |-> "",
     align |-> "", fallback |-> ""]

\* a value of the inline Updates map: a YAML string or something else
StrValue(s) == [isStr |-> TRUE, val |-> s]
OtherValue(s) == [isStr |-> FALSE, val |-> s]

LayerOverride(layer, updates) == [layer |-> layer, updates |-> updates]

Dimensions(w, h) == [width |-> w, height |-> h, dpi |-> 300]

EmptyMap == [k \in {} |-> ""]

Template(tcg, extends, dims, layers, overrides, addLayers, required, optional) ==
    [tcg |-> tcg, extends |-> extends, dimensions |-> dims, layers |-> layers,
     required |-> required, optional |-> optional,
     icons |-> EmptyMap, style_tokens |-> EmptyMap,
     overrides |-> overrides, additional_layers |-> addLayers,
     templateDir |-> ""]

LayerNames(layers) == {layers[i].name : i \in DOMAIN layers}

NamesOf(layers) == [i \in DOMAIN layers |-> layers[i].name]

SeqsUpTo(S, n) == UNION {[1..k -> S] : k \in 0..n}

-----------------------------------------------------------------------------
(* mergeTemplates and applyLayerOverride *)

\* applyLayerOverride with a slip: the type key is honoured as well
applyLayerOverride_type(layer, override) ==
    LET upd(key, old) ==
            IF key \in DOMAIN override.updates /\ override.updates[key].isStr
            THEN override.updates[key].val ELSE old
    IN [layer EXCEPT !.source = upd("source", layer.source),
                     !.content = upd("content", layer.content),
                     !.condition = upd("condition", layer.condition),
                     !.fit_mode = upd("fit_mode", layer.fit_mode),
                     !.type = upd("type", layer.type)]

applyLayerOverride(layer, override) ==
    LET upd(key, old) ==
            IF key \in DOMAIN override.updates /\ override.updates[key].isStr
            THEN override.updates[key].val ELSE old
    IN [layer EXCEPT !.source = upd("source", layer.source),
                     !.content = upd("content", layer.content),
                     !.condition = upd("condition", layer.condition),
                     !.fit_mode = upd("fit_mode", layer.fit_mode)]

\* baseLayers := map name -> layer; a later layer of the same name replaces
\* the earlier entry
baseLayersMap(layers) ==
    [n \in LayerNames(layers) |->
        layers[CHOOSE i \in DOMAIN layers :
                  /\ layers[i].name = n
                  /\ \A j \in DOMAIN layers : layers[j].name = n => j <= i]]

\* the loop over result.Overrides, from override i on
RECURSIVE applyOverrides(_, _, _)
applyOverrides(baseLayers, overrides, i) ==
    IF i > Len(overrides) THEN baseLayers
    ELSE LET override == overrides[i]
             next == IF override.layer \in DOMAIN baseLayers
                     THEN [baseLayers EXCEPT ![override.layer] =
                              applyLayerOverride(baseLayers[override.layer], override)]
                     ELSE baseLayers
         IN applyOverrides(next, overrides, i + 1)

\* key-wise merge of optional / style_tokens / icons: extended wins
mergeMap(baseMap, extMap) ==
    [k \in DOMAIN baseMap \cup DOMAIN extMap |->
        IF k \in DOMAIN extMap THEN extMap[k] ELSE baseMap[k]]

\* the layer part of mergeTemplates
mergeLayers(baseLayerList, extLayerList, overrides, addLayers) ==
    LET baseLayers == applyOverrides(baseLayersMap(baseLayerList), overrides, 1)
        layerNames == LayerNames(baseLayerList)
        fromBase == [i \in DOMAIN baseLayerList |-> baseLayers[baseLayerList[i].name]]
        fromExt == SelectSeq(extLayerList, LAMBDA l : l.name \notin layerNames)
    IN fromBase \o fromExt \o addLayers

mergeTemplates(base, extended) ==
    [extended EXCEPT
        !.dimensions = IF extended.dimensions.width = 0
                       THEN base.dimensions ELSE extended.dimensions,
        !.required = base.required \cup extended.required,
        !.optional = mergeMap(base.optional, extended.optional),
        !.style_tokens = mergeMap(base.style_tokens, extended.style_tokens),
        !.icons = mergeMap(base.icons, extended.icons),
        !.layers = mergeLayers(base.layers, extended.layers,
                               extended.overrides, extended.additional_layers)]

-----------------------------------------------------------------------------
(* Paths and files *)

WorkspaceDir == "templates"
\* NewManager: filepath.Join(homeDir, ".tcg-cardgen", "cardstyles"), never empty
customCardstyleDir == "home/.tcg-cardgen/cardstyles"
BuiltinDir == "builtin"

\* filepath.Join of a directory and one clean element
Join(dir, name) == IF dir = "" THEN name ELSE dir \o "/" \o name

Path(dir, file) == [dir |-> dir, file |-> file]

\* strings.HasPrefix(extendsPath, "./") and extendsPath[2:], for the
\* references that occur in the modelled files
HasDotSlashPrefix(extendsPath) == extendsPath \in {"./base.yaml", "./basic.yaml"}

TrimDotSlash(extendsPath) ==
    CASE extendsPath = "./base.yaml" -> "base.yaml"
      [] extendsPath = "./basic.yaml" -> "basic.yaml"
      [] OTHER -> extendsPath

NullTemplate == Template("", "", Dimensions(0, 0), <<>>, <<>>, <<>>, {}, EmptyMap)

\* a file: absent, present but not parseable YAML, or a template document
Absent == [exists |-> FALSE, parses |-> FALSE, tmpl |-> NullTemplate]
Corrupt == [exists |-> TRUE, parses |-> FALSE, tmpl |-> NullTemplate]
File(t) == [exists |-> TRUE, parses |-> TRUE, tmpl |-> t]

ReadFile(files, path) == IF path \in DOMAIN files THEN files[path] ELSE Absent

\* results of the loading functions: (template, nil), (nil, error), or no
\* return at all because the recursion never ends
Ok(t) == [kind |-> "ok", tmpl |-> t, err |-> <<>>]
Err(e) == [kind |-> "err", tmpl |-> NullTemplate, err |-> e]
Overflow == [kind |-> "overflow", tmpl |-> NullTemplate, err |-> <<>>]

\* fmt.Errorf("...: %v", err): the new message in front of the wrapped ones
Wrap(msg, r) == Err(<<msg>> \o r.err)

-----------------------------------------------------------------------------
(* Loading from the file tiers *)

loadTemplateFile(files, filePath) ==
    LET f == ReadFile(files, filePath)
    IN IF ~f.exists THEN Err(<<"open " \o Join(filePath.dir, filePath.file) \o ": no such file or directory">>)
       ELSE IF ~f.parses THEN Err(<<"error parsing template">>)
       ELSE Ok([f.tmpl EXCEPT !.templateDir = filePath.dir])

RECURSIVE loadAndProcessTemplate(_, _, _)
RECURSIVE resolveBaseTemplate(_, _, _, _)

resolveBaseTemplate(files, extendsPath, currentDir, depth) ==
    loadAndProcessTemplate(files, Path(currentDir, TrimDotSlash(extendsPath)), depth)

\* depth counts the loadAndProcessTemplate frames on the stack; the code has
\* no limit of its own, so a chain that is still descending at MaxDepth is
\* one that never returns
loadAndProcessTemplate(files, filePath, depth) ==
    IF depth > MaxDepth THEN Overflow
    ELSE
    LET r == loadTemplateFile(files, filePath)
    IN IF r.kind = "err" THEN r
       ELSE IF r.tmpl.extends # ""
       THEN LET b == resolveBaseTemplate(files, r.tmpl.extends, r.tmpl.templateDir, depth + 1)
            IN IF b.kind = "overflow" THEN Overflow
               ELSE IF b.kind = "err"
               THEN Wrap("failed to load base template '" \o r.tmpl.extends \o "'", b)
               ELSE Ok(mergeTemplates(b.tmpl, r.tmpl))
       ELSE r

-----------------------------------------------------------------------------
(* Loading from the embedded builtin templates *)

RECURSIVE resolveBuiltinBaseTemplate(_, _, _, _)
resolveBuiltinBaseTemplate(embedded, extendsPath, currentDir, depth) ==
    IF depth > MaxDepth THEN Overflow
    ELSE
    LET basePath == IF HasDotSlashPrefix(extendsPath)
                    THEN Path(currentDir, TrimDotSlash(extendsPath))
                    ELSE Path(BuiltinDir, extendsPath)
        f == ReadFile(embedded, basePath)
    IN IF ~f.exists THEN Err(<<"open " \o Join(basePath.dir, basePath.file) \o ": file does not exist">>)
       ELSE IF ~f.parses THEN Err(<<"error parsing builtin base template">>)
       ELSE LET template == [f.tmpl EXCEPT !.templateDir = basePath.dir]
            IN IF template.extends # ""
               THEN LET b == resolveBuiltinBaseTemplate(embedded, template.extends,
                                                        template.templateDir, depth + 1)
                    IN IF b.kind = "ok" THEN Ok(mergeTemplates(b.tmpl, template)) ELSE b
               ELSE Ok(template)

loadBuiltinTemplate(embedded, tcg, cardstyle) ==
    LET builtinPath == Path(Join(BuiltinDir, tcg), cardstyle \o ".yaml")
        f == ReadFile(embedded, builtinPath)
    IN IF ~f.exists
       THEN Err(<<"builtin template " \o tcg \o "/" \o cardstyle \o " not found",
                  "open " \o Join(builtinPath.dir, builtinPath.file) \o ": file does not exist">>)
       ELSE IF ~f.parses THEN Err(<<"error parsing builtin template">>)
       ELSE LET template == [f.tmpl EXCEPT !.templateDir = Join(BuiltinDir, tcg)]
            IN IF template.extends # ""
               THEN LET b == resolveBuiltinBaseTemplate(embedded, template.extends,
                                                        template.templateDir, 1)
                    IN IF b.kind = "overflow" THEN Overflow
                       ELSE IF b.kind = "err"
                       THEN Wrap("failed to load builtin base template '" \o template.extends \o "'", b)
                       ELSE Ok(mergeTemplates(b.tmpl, template))
               ELSE Ok(template)

-----------------------------------------------------------------------------
(* The search tiers *)

workspacePath(tcg, cardstyle) == Path(Join(WorkspaceDir, tcg), cardstyle \o ".yaml")
tcgPath(tcg, cardstyle) == Path(Join(customCardstyleDir, tcg), cardstyle \o ".yaml")
rootPath(tcg, cardstyle) == Path(customCardstyleDir, cardstyle \o ".yaml")
templatePath(customDir, tcg, cardstyle) == Path(Join(customDir, tcg), cardstyle \o ".yaml")

\* tiers 4 and 5
findLegacyOrBuiltin(files, embedded, customDir, tcg, cardstyle) ==
    LET r4 == IF customDir # ""
              THEN loadAndProcessTemplate(files, templatePath(customDir, tcg, cardstyle), 0)
              ELSE Err(<<>>)
    IN IF r4.kind = "overflow" THEN Overflow
       ELSE IF customDir # "" /\ r4.kind = "ok" THEN r4
       ELSE loadBuiltinTemplate(embedded, tcg, cardstyle)

\* tiers 2 and 3 (customCardstyleDir), then the rest
findUserOrLater(files, embedded, customDir, tcg, cardstyle) ==
    IF customCardstyleDir # ""
    THEN LET r2 == loadAndProcessTemplate(files, tcgPath(tcg, cardstyle), 0)
         IN IF r2.kind # "err" THEN r2
            ELSE LET r3 == loadAndProcessTemplate(files, rootPath(tcg, cardstyle), 0)
                 IN IF r3.kind = "overflow" THEN Overflow
                    ELSE IF r3.kind = "ok" /\ r3.tmpl.tcg = tcg THEN r3
                    ELSE findLegacyOrBuiltin(files, embedded, customDir, tcg, cardstyle)
    ELSE findLegacyOrBuiltin(files, embedded, customDir, tcg, cardstyle)

findAndLoadTemplate(files, embedded, customDir, tcg, cardstyle) ==
    LET r1 == loadAndProcessTemplate(files, workspacePath(tcg, cardstyle), 0)
    IN IF r1.kind # "err" THEN r1
       ELSE findUserOrLater(files, embedded, customDir, tcg, cardstyle)

-----------------------------------------------------------------------------
(* Manager.LoadTemplate *)

cacheKey(tcg, cardstyle) == tcg \o "/" \o cardstyle

Returned(kind, tcg, cardstyle, tmpl, err, searched) ==
    [kind |-> kind, tcg |-> tcg, style |-> cardstyle, tmpl |-> tmpl,
     err |-> err, searched |-> searched]

NoReturn == Returned("none", "", "", NullTemplate, <<>>, FALSE)

CachePut(cache, key, t) ==
    [k \in DOMAIN cache \cup {key} |-> IF k = key THEN t ELSE cache[k]]

\* the miss path: search the tiers, wrap the error or store the template
searchAndStore(cache, files, embedded, customDir, tcg, cardstyle) ==
    LET key == cacheKey(tcg, cardstyle)
        r == findAndLoadTemplate(files, embedded, customDir, tcg, cardstyle)
    IN IF r.kind = "overflow"
       THEN [ret |-> Returned("overflow", tcg, cardstyle, NullTemplate, <<>>, TRUE),
             templates |-> cache]
       ELSE IF r.kind = "err"
       THEN [ret |-> Returned("err", tcg, cardstyle, NullTemplate,
                              <<"cardstyle " \o tcg \o "/" \o cardstyle \o " not found">> \o r.err,
                              TRUE),
             templates |-> cache]
       ELSE [ret |-> Returned("ok", tcg, cardstyle, r.tmpl, <<>>, TRUE),
             templates |-> CachePut(cache, key, r.tmpl)]

\* LoadTemplate without the cache lookup: every call searches again
LoadTemplate_nocache(cache, files, embedded, customDir, tcg, cardstyle) ==
    searchAndStore(cache, files, embedded, customDir, tcg, cardstyle)

\* the call's return value and the cache it leaves behind
LoadTemplate(cache, files, embedded, customDir, tcg, cardstyle) ==
    LET key == cacheKey(tcg, cardstyle)
    IN IF key \in DOMAIN cache
       THEN [ret |-> Returned("ok", tcg, cardstyle, cache[key], <<>>, FALSE),
             templates |-> cache]
       ELSE searchAndStore(cache, files, embedded, customDir, tcg, cardstyle)

-----------------------------------------------------------------------------
(* The files and calls explored *)

TCGs == {"mtg"}
Cardstyles == {"basic", "base"}

FullRegion == [x |-> 0, y |-> 0, width |-> 750, height |-> 1050]
TitleRegion == [x |-> 60, y |-> 60, width |-> 630, height |-> 60]

FrameLayer == Layer("frame", "image", "frames/frame.png", FullRegion)
TitleLayer == Layer("title", "text", "", TitleRegion)
ArtLayer == Layer("art", "image", "{{card.artwork}}", FullRegion)

\* a template that extends nothing
PlainTemplate(tcg, dims) ==
    Template(tcg, "", dims, <<FrameLayer, TitleLayer>>, <<>>, <<>>,
             {"card.tcg", "card.title"}, EmptyMap)

\* a template that extends extendsPath, overrides the frame of its base and
\* adds an art layer
ExtendingTemplate(tcg, extendsPath) ==
    Template(tcg, extendsPath, Dimensions(0, 0), <<TitleLayer>>,
             <<LayerOverride("frame", [k \in {"source"} |-> StrValue("frames/red.png")])>>,
             <<ArtLayer>>, {"card.type"}, EmptyMap)

FileDocs ==
    {File(PlainTemplate("mtg", Dimensions(750, 1050))),
     File(PlainTemplate("mtg", Dimensions(0, 0))),
     File(ExtendingTemplate("mtg", "base.yaml")),
     File(ExtendingTemplate("mtg", "basic.yaml")),
     Corrupt}

\* a flat user file may declare any tcg
FlatDocs == FileDocs \cup {File(PlainTemplate("pkm", Dimensions(750, 1050)))}

\* the four file tiers hold <cardstyle>.yaml; base.yaml, the file the
\* extending documents refer to, is explored in the first two
FilePaths ==
    {Path(Join(WorkspaceDir, "mtg"), "basic.yaml"),
     Path(Join(WorkspaceDir, "mtg"), "base.yaml"),
     Path(Join(customCardstyleDir, "mtg"), "basic.yaml"),
     Path(Join(customCardstyleDir, "mtg"), "base.yaml"),
     Path(customCardstyleDir, "basic.yaml"),
     Path(Join("custom", "mtg"), "basic.yaml")}

\* the files that change while the Manager is in use
VolatilePaths ==
    {Path(Join(WorkspaceDir, "mtg"), "basic.yaml"),
     Path(Join(WorkspaceDir, "mtg"), "base.yaml")}

DocsFor(path) == IF path.dir = customCardstyleDir THEN FlatDocs ELSE FileDocs

BuiltinPaths == {Path(Join(BuiltinDir, "mtg"), c \o ".yaml") : c \in Cardstyles}

EmbeddedSet(basic, base) ==
    [p \in BuiltinPaths |-> IF p.file = "basic.yaml" THEN basic ELSE base]

\* the builtin/* trees a build may embed
EmbeddedSets ==
    {EmbeddedSet(Absent, Absent),
     EmbeddedSet(File(PlainTemplate("mtg", Dimensions(750, 1050))), Absent),
     EmbeddedSet(File(ExtendingTemplate("mtg", "./base.yaml")),
                 File(PlainTemplate("mtg", Dimensions(750, 1050)))),
     EmbeddedSet(File(ExtendingTemplate("mtg", "./base.yaml")),
                 File(ExtendingTemplate("mtg", "./basic.yaml"))),
     EmbeddedSet(File(ExtendingTemplate("mtg", "base.yaml")),
                 File(PlainTemplate("mtg", Dimensions(750, 1050))))}

-----------------------------------------------------------------------------------------------------------------------------------------------------
(* Spec: one Manager, called sequentially, over any set of template files *)

MergeIdle ==
    /\ mBase = NullTemplate /\ mExtended = NullTemplate /\ mResult = NullTemplate

ConcIdle == pc = <<>> /\ found = <<>>

SubstIdle == substText = <<>> /\ substituted = <<>>

CondIdle == condExpr = <<>> /\ holds = <<>>

RenderIdle ==
    /\ cardLayers = <<>> /\ images = {} /\ layerIdx = 0
    /\ canvas = <<>> /\ saved = 0 /\ renderErr = <<>>

FitIdle == fitImg = <<>> /\ fitRegion = NoRegion /\ fitted = <<>>

GenIdle ==
    /\ genFile = <<>> /\ card = <<>> /\ cardTemplate = <<>>
    /\ stage = "idle" /\ genErr = <<>> /\ dcSize = <<>>

TextIdle == srcText = <<>> /\ parsed = <<>> /\ wrapIn = <<>> /\ wrapOut = <<>>

WalkIdle == walk = <<>>

CardIdle == GenIdle /\ TextIdle /\ WalkIdle

RendIdle ==
    /\ templateVars = <<>> /\ SubstIdle /\ CondIdle /\ RenderIdle /\ FitIdle
    /\ CardIdle

NewManager ==
    /\ customTemplateDir \in {"", "custom"}
    /\ templates = <<>>
    /\ ret = NoReturn
    /\ crashed = FALSE

Init ==
    /\ \E present \in SUBSET FilePaths :
          /\ Cardinality(present) <= MaxFiles
          /\ \E docs \in [present -> FlatDocs] :
                /\ \A p \in present : docs[p] \in DocsFor(p)
                /\ fs = [p \in FilePaths |-> IF p \in present THEN docs[p] ELSE Absent]
    /\ builtinTemplates \in EmbeddedSets
    /\ NewManager
    /\ MergeIdle
    /\ ConcIdle
    /\ RendIdle

LoadTemplateCall(tcg, cardstyle) ==
    /\ ~crashed
    /\ LET r == LoadTemplate(templates, fs, builtinTemplates, customTemplateDir,
                             tcg, cardstyle)
       IN /\ ret' = r.ret
          /\ templates' = r.templates
          /\ crashed' = (r.ret.kind = "overflow")
    /\ UNCHANGED <<fs, builtinTemplates, customTemplateDir, mergeVars, concVars, rendVars>>

Next == \E tcg \in TCGs, cardstyle \in Cardstyles : LoadTemplateCall(tcg, cardstyle)

Spec == Init /\ [][Next]_vars

-----------------------------------------------------------------------------
(* SpecFiles: the same Manager while template files are written and removed *)

InitFiles ==
    /\ fs = [p \in FilePaths |-> Absent]
    /\ builtinTemplates \in EmbeddedSets
    /\ NewManager
    /\ MergeIdle
    /\ ConcIdle
    /\ RendIdle

WriteFile(path, doc) ==
    /\ ~crashed
    /\ fs[path] # doc
    /\ fs' = [fs EXCEPT ![path] = doc]
    /\ UNCHANGED <<builtinTemplates, customTemplateDir, templates, ret, crashed,
                   mergeVars, concVars, rendVars>>

RemoveFile(path) ==
    /\ ~crashed
    /\ fs[path].exists
    /\ fs' = [fs EXCEPT ![path] = Absent]
    /\ UNCHANGED <<builtinTemplates, customTemplateDir, templates, ret, crashed,
                   mergeVars, concVars, rendVars>>

NextFiles ==
    \/ \E tcg \in TCGs, cardstyle \in Cardstyles : LoadTemplateCall(tcg, cardstyle)
    \/ \E path \in VolatilePaths : \E doc \in DocsFor(path) : WriteFile(path, doc)
    \/ \E path \in VolatilePaths : RemoveFile(path)

SpecFiles == InitFiles /\ [][NextFiles]_vars

-----------------------------------------------------------------------------
(* SpecMerge: mergeTemplates on layer lists drawn from small pools *)

BaseLayerPool ==
    {FrameLayer, TitleLayer, Layer("frame", "text", "frames/alt.png", TitleRegion)}

ExtLayerPool ==
    {[TitleLayer EXCEPT !.content = "{{card.title}}"], ArtLayer}

AddLayerPool ==
    {[ArtLayer EXCEPT !.fallback = "art/default.png"],
     Layer("frame", "image", "frames/overlay.png", FullRegion)}

OverridePool ==
    {LayerOverride("frame",
        [k \in {"source", "type"} |->
            IF k = "source" THEN StrValue("frames/red.png") ELSE StrValue("text")]),
     LayerOverride("title",
        [k \in {"content", "condition", "fit_mode", "source", "align"} |->
            CASE k = "content" -> StrValue("{{card.name}}")
              [] k = "condition" -> StrValue("card.name")
              [] k = "fit_mode" -> StrValue("fit")
              [] k = "source" -> OtherValue("42")
              [] OTHER -> StrValue("center")]),
     LayerOverride("rules", [k \in {"source"} |-> StrValue("frames/none.png")])}

BaseTemplates ==
    {Template("mtg", "", Dimensions(750, 1050), layers, <<>>, <<>>,
              {"card.tcg", "card.title"}, [k \in {"card.rarity"} |-> "common"]) :
        layers \in SeqsUpTo(BaseLayerPool, MaxBaseLayers)}

ExtendingTemplates(extendsPath, overridePool) ==
    {Template("mtg", extendsPath, dims, layers, overrides, addLayers,
              {"card.type"}, [k \in {"card.rarity"} |-> "rare"]) :
        dims \in {Dimensions(0, 0), Dimensions(600, 900)},
        layers \in SeqsUpTo(ExtLayerPool, MaxExtLayers),
        overrides \in SeqsUpTo(overridePool, MaxOverrides),
        addLayers \in SeqsUpTo(AddLayerPool, MaxAddLayers)}

MgrIdle ==
    /\ fs = <<>> /\ builtinTemplates = <<>> /\ customTemplateDir = ""
    /\ templates = <<>> /\ ret = NoReturn /\ crashed = FALSE

InitMerge ==
    /\ mBase \in BaseTemplates
    /\ mExtended \in ExtendingTemplates("base.yaml", OverridePool)
    /\ mResult = NullTemplate
    /\ MgrIdle
    /\ ConcIdle
    /\ RendIdle

MergeCall ==
    /\ mResult = NullTemplate
    /\ mResult' = mergeTemplates(mBase, mExtended)
    /\ UNCHANGED <<mBase, mExtended, mgrVars, concVars, rendVars>>

NextMerge == MergeCall

SpecMerge == InitMerge /\ [][NextMerge]_vars

-----------------------------------------------------------------------------
(* SpecChain: LoadTemplate over a three-level chain c.yaml -> b.yaml -> a.yaml *)

ChainDir == Join(WorkspaceDir, "mtg")
ChainA == Path(ChainDir, "a.yaml")
ChainB == Path(ChainDir, "b.yaml")
ChainC == Path(ChainDir, "c.yaml")

ChainTops ==
    {Template("mtg", "b.yaml", Dimensions(0, 0), <<>>, <<>>, <<>>, {}, EmptyMap),
     Template("mtg", "b.yaml", Dimensions(0, 0), <<ArtLayer, TitleLayer>>,
              <<LayerOverride("frame", [k \in {"source"} |-> StrValue("frames/blue.png")])>>,
              <<>>, {}, EmptyMap),
     Template("mtg", "b.yaml", Dimensions(600, 900),
              <<Layer("rules", "text", "", TitleRegion)>>,
              <<LayerOverride("art", [k \in {"fit_mode"} |-> StrValue("fit")])>>,
              <<Layer("set_icon", "image", "icons/set.png", TitleRegion)>>,
              {}, EmptyMap),
     Template("mtg", "b.yaml", Dimensions(0, 0), <<>>, <<>>,
              <<Layer("title", "text", "", FullRegion)>>, {}, EmptyMap)}

InitChain ==
    /\ \E a \in BaseTemplates,
          b \in ExtendingTemplates("a.yaml", {CHOOSE o \in OverridePool : o.layer = "frame"}),
          c \in ChainTops :
          /\ b.dimensions.width = 0
          /\ fs = [p \in {ChainA, ChainB, ChainC} |->
                      IF p = ChainA THEN File(a) ELSE IF p = ChainB THEN File(b) ELSE File(c)]
    /\ builtinTemplates = [p \in BuiltinPaths |-> Absent]
    /\ NewManager
    /\ customTemplateDir = ""
    /\ MergeIdle
    /\ ConcIdle
    /\ RendIdle

NextChain == \E cardstyle \in {"a", "c"} : LoadTemplateCall("mtg", cardstyle)

SpecChain == InitChain /\ [][NextChain]_vars

-----------------------------------------------------------------------------
(* SpecConc: workers that share one Generator, hence one Manager.  A map   *)
(* read or write is not atomic: it lasts from its Begin step to its End    *)
(* step, and the Manager holds no lock.                                     *)

Workers == {"w1", "w2"}

Local(tcg, cardstyle, kind, tmpl) ==
    [tcg |-> tcg, style |-> cardstyle, kind |-> kind, tmpl |-> tmpl]

InitConc ==
    /\ fs \in {[p \in FilePaths |-> Absent],
               [p \in FilePaths |->
                   IF p = workspacePath("mtg", "basic")
                   THEN File(PlainTemplate("mtg", Dimensions(750, 1050))) ELSE Absent]}
    /\ builtinTemplates \in EmbeddedSets
    /\ NewManager
    /\ customTemplateDir = ""
    /\ MergeIdle
    /\ RendIdle
    /\ pc = [w \in Workers |-> "idle"]
    /\ found = [w \in Workers |-> Local("", "", "none", NullTemplate)]

\* a map access of one worker overlaps a map write of another
MapRace ==
    \E w \in Workers : \E v \in Workers \ {w} :
        pc[w] = "writing" /\ pc[v] \in {"reading", "writing"}

\* LoadTemplate entered: the read of m.templates[key] begins
BeginLookup(w, tcg, cardstyle) ==
    /\ ~crashed
    /\ pc[w] = "idle"
    /\ pc' = [pc EXCEPT ![w] = "reading"]
    /\ found' = [found EXCEPT ![w] = Local(tcg, cardstyle, "none", NullTemplate)]
    /\ UNCHANGED <<mgrVars, mergeVars, rendVars>>

\* the read ends: a hit returns the cached template, a miss goes on to load
EndLookup(w) ==
    /\ ~crashed
    /\ pc[w] = "reading"
    /\ LET key == cacheKey(found[w].tcg, found[w].style)
       IN IF key \in DOMAIN templates
          THEN /\ found' = [found EXCEPT ![w].kind = "ok", ![w].tmpl = templates[key]]
               /\ pc' = [pc EXCEPT ![w] = "idle"]
          ELSE /\ pc' = [pc EXCEPT ![w] = "loading"]
               /\ UNCHANGED found
    /\ UNCHANGED <<mgrVars, mergeVars, rendVars>>

\* findAndLoadTemplate: an error returns, a template goes on to be stored
Load(w) ==
    /\ ~crashed
    /\ pc[w] = "loading"
    /\ LET r == findAndLoadTemplate(fs, builtinTemplates, customTemplateDir,
                                    found[w].tcg, found[w].style)
       IN /\ found' = [found EXCEPT ![w].kind = r.kind, ![w].tmpl = r.tmpl]
          /\ pc' = [pc EXCEPT ![w] = IF r.kind = "ok" THEN "loaded" ELSE "idle"]
          /\ crashed' = (r.kind = "overflow")
    /\ UNCHANGED <<fs, builtinTemplates, customTemplateDir, templates, ret, mergeVars, rendVars>>

\* the write m.templates[key] = template begins
BeginStore(w) ==
    /\ ~crashed
    /\ pc[w] = "loaded"
    /\ pc' = [pc EXCEPT ![w] = "writing"]
    /\ UNCHANGED <<found, mgrVars, mergeVars, rendVars>>

\* the write ends and LoadTemplate returns
EndStore(w) ==
    /\ ~crashed
    /\ pc[w] = "writing"
    /\ templates' = CachePut(templates, cacheKey(found[w].tcg, found[w].style),
                             found[w].tmpl)
    /\ pc' = [pc EXCEPT ![w] = "idle"]
    /\ UNCHANGED <<found, fs, builtinTemplates, customTemplateDir, ret, crashed, mergeVars, rendVars>>

\* the Go runtime may detect the overlapping map access and end the process
\* ("fatal error: concurrent map read and map write" / "concurrent map writes")
FatalMapRace ==
    /\ ~crashed
    /\ MapRace
    /\ crashed' = TRUE
    /\ UNCHANGED <<pc, found, fs, builtinTemplates, customTemplateDir, templates, ret,
                   mergeVars, rendVars>>

NextConc ==
    \/ \E w \in Workers, cardstyle \in Cardstyles : BeginLookup(w, "mtg", cardstyle)
    \/ \E w \in Workers : EndLookup(w)
    \/ \E w \in Workers : Load(w)
    \/ \E w \in Workers : BeginStore(w)
    \/ \E w \in Workers : EndStore(w)
    \/ FatalMapRace

SpecConc == InitConc /\ [][NextConc]_vars

-----------------------------------------------------------------------------
(* Properties of the template resolver *)

\* the first tier, in search order, that holds a candidate file for the pair:
\* its number and the candidate's path (tier 0: no tier has one)
FirstCandidate(files, embedded, customDir, tcg, cardstyle) ==
    LET flat == ReadFile(files, rootPath(tcg, cardstyle))
    IN IF ReadFile(files, workspacePath(tcg, cardstyle)).exists
       THEN [tier |-> 1, path |-> workspacePath(tcg, cardstyle)]
       ELSE IF ReadFile(files, tcgPath(tcg, cardstyle)).exists
       THEN [tier |-> 2, path |-> tcgPath(tcg, cardstyle)]
       ELSE IF flat.exists /\ flat.parses /\ flat.tmpl.tcg = tcg
       THEN [tier |-> 3, path |-> rootPath(tcg, cardstyle)]
       ELSE IF customDir # "" /\ ReadFile(files, templatePath(customDir, tcg, cardstyle)).exists
       THEN [tier |-> 4, path |-> templatePath(customDir, tcg, cardstyle)]
       ELSE IF ReadFile(embedded, Path(Join(BuiltinDir, tcg), cardstyle \o ".yaml")).exists
       THEN [tier |-> 5, path |-> Path(Join(BuiltinDir, tcg), cardstyle \o ".yaml")]
       ELSE [tier |-> 0, path |-> Path("", "")]

RetCandidate ==
    FirstCandidate(fs, builtinTemplates, customTemplateDir, ret.tcg, ret.style)

\* the call that set ret searched the tiers and came back
SearchReturned == ret.searched /\ ret.kind \in {"ok", "err"}

\* C1: a template that LoadTemplate finds by searching comes from the first
\* tier (workspace, user <tcg>/, user flat file of the requested tcg, legacy
\* custom directory, builtin) that holds a candidate file for the pair; no
\* lower tier's template is returned once a candidate exists higher up.
C1_FirstTierWins ==
    (ret.searched /\ ret.kind = "ok") => ret.tmpl.templateDir = RetCandidate.path.dir

\* the first candidate parses, declares extends, and its base cannot be loaded
CandidateBaseFails ==
    LET c == RetCandidate
        f == IF c.tier = 5 THEN ReadFile(builtinTemplates, c.path) ELSE ReadFile(fs, c.path)
    IN /\ c.tier # 0
       /\ f.parses
       /\ f.tmpl.extends # ""
       /\ IF c.tier = 5
          THEN resolveBuiltinBaseTemplate(builtinTemplates, f.tmpl.extends, c.path.dir, 1).kind = "err"
          ELSE resolveBaseTemplate(fs, f.tmpl.extends, c.path.dir, 1).kind = "err"

IsBaseFailure(msg, extendsPath) ==
    \/ msg = "failed to load base template '" \o extendsPath \o "'"
    \/ msg = "failed to load builtin base template '" \o extendsPath \o "'"

\* C2: when the candidate found for the pair declares an extends whose base
\* cannot be loaded, LoadTemplate returns an error that wraps the base-template
\* failure; when no tier has a candidate it returns the error "cardstyle
\* <tcg>/<style> not found".
C2_ExtendsFailureReported ==
    SearchReturned =>
        /\ CandidateBaseFails =>
              /\ ret.kind = "err"
              /\ \E i \in DOMAIN ret.err, e \in {"base.yaml", "basic.yaml", "./base.yaml", "./basic.yaml"} :
                    IsBaseFailure(ret.err[i], e)
        /\ RetCandidate.tier = 0 =>
              /\ ret.kind = "err"
              /\ ret.err[1] = "cardstyle " \o ret.tcg \o "/" \o ret.style \o " not found"

\* C3: every LoadTemplate call comes back with a template or an error, also
\* when the extends references form a cycle: the resolver never recurses
\* without bound.
C3_LoadTemplateReturns == ret.kind # "overflow" /\ ~crashed

DistinctNames(layers) ==
    \A i \in DOMAIN layers, j \in DOMAIN layers : i # j => layers[i].name # layers[j].name

\* C4: every template returned by LoadTemplate has pairwise-distinct layer
\* names.
C4_DistinctLayerNames == ret.kind = "ok" => DistinctNames(ret.tmpl.layers)

\* all overrides that target the layer's name, applied to it in order
RECURSIVE overridesApplied(_, _, _)
overridesApplied(layer, overrides, i) ==
    IF i > Len(overrides) THEN layer
    ELSE overridesApplied(IF overrides[i].layer = layer.name
                          THEN applyLayerOverride(layer, overrides[i]) ELSE layer,
                          overrides, i + 1)

ExpectedLayers(base, extended) ==
    [i \in DOMAIN base.layers |-> overridesApplied(base.layers[i], extended.overrides, 1)]
    \o SelectSeq(extended.layers, LAMBDA l : l.name \notin LayerNames(base.layers))
    \o extended.additional_layers

\* C5: the layer list of merge(base, extended) is base's layers in base order,
\* each with the overrides that target its name applied, then the extended
\* layers whose name does not occur in base, then additional_layers.
C5_MergedLayerList ==
    mResult # NullTemplate => mResult.layers = ExpectedLayers(mBase, mExtended)

FrameFields ==
    {"name", "type", "role", "region", "font", "align", "fallback",
     "strip_headers", "icon_replace"}

OverridableFields == {"source", "content", "condition", "fit_mode"}

\* the value the last override that targets name gives to key as a string,
\* or old when there is none
RECURSIVE lastStringUpdate(_, _, _, _, _)
lastStringUpdate(overrides, name, key, old, i) ==
    IF i > Len(overrides) THEN old
    ELSE LET o == overrides[i]
             hit == o.layer = name /\ key \in DOMAIN o.updates /\ o.updates[key].isStr
         IN lastStringUpdate(overrides, name, key,
                             IF hit THEN o.updates[key].val ELSE old, i + 1)

C7_PositiveDimensions ==
    ret.kind = "ok" =>
        ret.tmpl.dimensions.width > 0 /\ ret.tmpl.dimensions.height > 0

NonColliding(layers, names) == SelectSeq(layers, LAMBDA l : l.name \notin names)

\* C8: for c.yaml extends b.yaml extends a.yaml, the layers of resolved c are
\* merge(merge(a, b), c); their names are a's names in a's order, then b's
\* non-colliding and additional layers, then c's; and every layer of a is
\* still there, changed at most in the four fields an override may set.
C8_ChainIsNestedMerge ==
    (ret.kind = "ok" /\ ret.style = "c") =>
        LET a == fs[ChainA].tmpl
            b == fs[ChainB].tmpl
            c == fs[ChainC].tmpl
            ab == mergeLayers(a.layers, b.layers, b.overrides, b.additional_layers)
            namesAB == NamesOf(a.layers)
                       \o NamesOf(NonColliding(b.layers, LayerNames(a.layers)))
                       \o NamesOf(b.additional_layers)
        IN /\ ret.tmpl.layers = mergeLayers(ab, c.layers, c.overrides, c.additional_layers)
           /\ NamesOf(ret.tmpl.layers) =
                 namesAB
                 \o NamesOf(NonColliding(c.layers, {namesAB[i] : i \in DOMAIN namesAB}))
                 \o NamesOf(c.additional_layers)
           /\ \A i \in DOMAIN a.layers :
                 \A f \in FrameFields \ {"name"} :
                    ret.tmpl.layers[i][f] = baseLayersMap(a.layers)[a.layers[i].name][f]

\* C9: a cache entry is never removed or replaced; a LoadTemplate call for a
\* cached pair returns the cached template without searching, whatever the
\* files hold by then; a call that does not succeed leaves the cache as it was.
C9_CacheIsStable ==
    [][/\ \A k \in DOMAIN templates :
             k \in DOMAIN templates' /\ templates'[k] = templates[k]
       /\ ret' # ret =>
             LET k == cacheKey(ret'.tcg, ret'.style)
             IN /\ k \in DOMAIN templates =>
                      /\ ret'.kind = "ok"
                      /\ ret'.tmpl = templates[k]
                      /\ ~ret'.searched
                      /\ templates' = templates
                /\ ret'.kind # "ok" => templates' = templates]_vars

\* a call was answered from the cache although a fresh search of the files
\* would now fail or give another template, with both pairs cached
C9_Witness ==
    /\ ret.kind = "ok" /\ ~ret.searched
    /\ Cardinality(DOMAIN templates) = 2
    /\ LET r == findAndLoadTemplate(fs, builtinTemplates, customTemplateDir,
                                    ret.tcg, ret.style)
       IN r.kind = "err" \/ (r.kind = "ok" /\ r.tmpl # ret.tmpl)

\* C10: concurrent LoadTemplate calls on one Manager never overlap a write of
\* the template cache with another access to it.
C10_NoUnsynchronisedCacheAccess == ~MapRace


-----------------------------------------------------------------------------
(* Text of the renderer.  A string is the sequence of its characters; a    *)
(* character other than a brace, a bar, an ampersand or a blank may stand  *)
(* for a run of ordinary characters.                                        *)

\* pieces a substitution input is made of
MaxPieces == 5
\* SubstituteVariables calls made on one text, each on the previous result
MaxCalls == 2

RECURSIVE Flatten(_)
Flatten(seqs) == IF seqs = <<>> THEN <<>> ELSE Head(seqs) \o Flatten(Tail(seqs))

\* strings.HasPrefix(s[i-1:], old)
HasPrefixAt(s, i, old) ==
    i + Len(old) - 1 <= Len(s) /\ SubSeq(s, i, i + Len(old) - 1) = old

\* strings.Contains(s, old)
Contains(s, old) == \E i \in 1..(Len(s) + 1) : HasPrefixAt(s, i, old)

\* strings.ReplaceAll(s, old, new) for a non-empty old: the non-overlapping
\* occurrences of old, found from the left, are replaced
RECURSIVE ReplaceAll(_, _, _)
ReplaceAll(s, old, new) ==
    IF s = <<>> THEN <<>>
    ELSE IF HasPrefixAt(s, 1, old)
         THEN new \o ReplaceAll(SubSeq(s, Len(old) + 1, Len(s)), old, new)
         ELSE <<Head(s)>> \o ReplaceAll(Tail(s), old, new)

\* placeholder := "{{" + key + "}}"
placeholder(key) == <<"{", "{">> \o key \o <<"}", "}">>

\* the orders in which "for key, value := range vars" may visit the map
RangeOrders(tvars) ==
    {order \in [1..Cardinality(DOMAIN tvars) -> DOMAIN tvars] :
        \A i, j \in DOMAIN order : order[i] = order[j] => i = j}

\* SubstituteVariables when range visits the keys in the given order
RECURSIVE SubstituteVariables(_, _, _)
SubstituteVariables(template, tvars, order) ==
    IF order = <<>> THEN template
    ELSE SubstituteVariables(
             ReplaceAll(template, placeholder(Head(order)), tvars[Head(order)]),
             tvars, Tail(order))

-----------------------------------------------------------------------------
(* SpecSubst: SubstituteVariables applied to a text, then to its result *)

SubstKeys == {<<"a">>, <<"b">>}

SubstValues == {<<>>, <<"a">>, placeholder(<<"a">>)}

SubstPieces == {<<"{", "{">>, <<"}", "}">>, <<"a">>, <<"b">>}

Namespaces(keys, values) == UNION {[present -> values] : present \in SUBSET keys}

\* the documented path with a fallback: frames/{{mtg.color|colorless}}_frame.png
FramePath ==
    <<"frames/", "{", "{", "mtg.color", "|", "colorless", "}", "}", "_frame.png">>

InitSubst ==
    /\ \/ /\ \E pieces \in SeqsUpTo(SubstPieces, MaxPieces) : substText = Flatten(pieces)
          /\ templateVars \in Namespaces(SubstKeys, SubstValues)
       \/ /\ substText = FramePath
          /\ templateVars \in Namespaces({<<"mtg.color">>}, {<<>>, <<"red">>})
    /\ substituted = <<>>
    /\ CondIdle /\ RenderIdle /\ FitIdle
    /\ MgrIdle /\ MergeIdle /\ ConcIdle /\ CardIdle

SubstituteCall(order) ==
    /\ Len(substituted) < MaxCalls
    /\ LET template == IF substituted = <<>> THEN substText
                       ELSE substituted[Len(substituted)]
       IN substituted' =
              Append(substituted, SubstituteVariables(template, templateVars, order))
    /\ UNCHANGED <<substText, templateVars, condVars, renderVars, fitVars,
                   mgrVars, mergeVars, concVars, cardVars>>

NextSubst == \E order \in RangeOrders(templateVars) : SubstituteCall(order)

SpecSubst == InitSubst /\ [][NextSubst]_vars


\* a {{...}} placeholder occurs in s: an opening pair with a closing pair after it
HasPlaceholder(s) ==
    \E i, j \in 1..Len(s) :
        j >= i + 2 /\ HasPrefixAt(s, i, <<"{", "{">>) /\ HasPrefixAt(s, j, <<"}", "}">>)

\* C11: substitution is idempotent: when no value of the namespace contains
\* a {{...}} placeholder, SubstituteVariables applied to the result of
\* SubstituteVariables returns that result unchanged.
C11_Idempotent ==
    (/\ Len(substituted) = 2
     /\ \A k \in DOMAIN templateVars : ~HasPlaceholder(templateVars[k]))
    => substituted[2] = substituted[1]

\* what one scan of the text gives when every {{key}} met is replaced by the
\* key's value and the scan goes on after the placeholder
RECURSIVE SinglePass(_, _)
SinglePass(template, tvars) ==
    IF template = <<>> THEN <<>>
    ELSE LET hits == {k \in DOMAIN tvars : HasPrefixAt(template, 1, placeholder(k))}
         IN IF hits = {} THEN <<Head(template)>> \o SinglePass(Tail(template), tvars)
            ELSE LET k == CHOOSE h \in hits : TRUE
                 IN tvars[k] \o SinglePass(SubSeq(template, Len(placeholder(k)) + 1,
                                                  Len(template)), tvars)

\* C12: the result does not depend on the order in which the keys are
\* visited: when no value contains another key's placeholder text, every
\* visiting order gives the string the call returned, and that string is the
\* single scan of the text (an inserted value is not scanned again).
C12_OrderIndependent ==
    (/\ Len(substituted) >= 1
     /\ \A k \in DOMAIN templateVars : \A j \in DOMAIN templateVars \ {k} :
            ~Contains(templateVars[k], placeholder(j)))
    => /\ \A order \in RangeOrders(templateVars) :
              SubstituteVariables(substText, templateVars, order) = substituted[1]
       /\ substituted[1] = SinglePass(substText, templateVars)

\* C13: a reference to a key that the namespace lacks is replaced by the
\* empty string: after SubstituteVariables no {{key}} of a missing key
\* remains in the text.
C13_MissingKeyRemoved ==
    Len(substituted) >= 1
    => \A k \in SubstKeys \ DOMAIN templateVars : ~Contains(substituted[1], placeholder(k))


\* C14: a {{key|default}} placeholder resolves to the key's value when the
\* key is present and non-empty and to the literal default otherwise:
\* frames/{{mtg.color|colorless}}_frame.png becomes frames/red_frame.png when
\* mtg.color is red and frames/colorless_frame.png when it is empty or missing.
C14_DefaultPlaceholder ==
    (substText = FramePath /\ Len(substituted) >= 1)
    => LET key == <<"mtg.color">>
           chosen == IF key \in DOMAIN templateVars /\ templateVars[key] # <<>>
                     THEN templateVars[key] ELSE <<"colorless">>
       IN substituted[1] = <<"frames/">> \o chosen \o <<"_frame.png">>


-----------------------------------------------------------------------------
(* EvaluateCondition *)

\* pieces a condition is made of
MaxCondPieces == 4

\* strings.TrimSpace(s)
TrimSpace(s) ==
    LET inked == {i \in DOMAIN s : s[i] # " "}
    IN IF inked = {} THEN <<>>
       ELSE SubSeq(s, CHOOSE i \in inked : \A j \in inked : i <= j,
                      CHOOSE i \in inked : \A j \in inked : j <= i)

\* strings.Split(s, sep) for a non-empty sep, with cur the piece being read:
\* one more piece than there are non-overlapping separators; Split("", sep)
\* is the one-element list [""]
RECURSIVE Split(_, _, _)
Split(s, sep, cur) ==
    IF s = <<>> THEN <<cur>>
    ELSE IF HasPrefixAt(s, 1, sep)
         THEN <<cur>> \o Split(SubSeq(s, Len(sep) + 1, Len(s)), sep, <<>>)
         ELSE Split(Tail(s), sep, Append(cur, Head(s)))

Null == <<"n", "u", "l", "l">>

\* EvaluateCondition with the null test left out
EvaluateCondition_nonull(cond, tvars) ==
    LET bare == ReplaceAll(ReplaceAll(TrimSpace(cond), <<"{", "{">>, <<>>),
                           <<"}", "}">>, <<>>)
        parts == Split(bare, <<"&", "&">>, <<>>)
        RECURSIVE loop(_)
        loop(i) ==
            IF i > Len(parts) THEN TRUE
            ELSE LET part == TrimSpace(parts[i])
                 IN IF part \notin DOMAIN tvars \/ tvars[part] = <<>>
                    THEN FALSE ELSE loop(i + 1)
    IN loop(1)

EvaluateCondition(cond, tvars) ==
    LET bare == ReplaceAll(ReplaceAll(TrimSpace(cond), <<"{", "{">>, <<>>),
                           <<"}", "}">>, <<>>)
        parts == Split(bare, <<"&", "&">>, <<>>)
        RECURSIVE loop(_)
        loop(i) ==
            IF i > Len(parts) THEN TRUE
            ELSE LET part == TrimSpace(parts[i])
                 IN IF part \notin DOMAIN tvars \/ tvars[part] = <<>> \/ tvars[part] = Null
                    THEN FALSE ELSE loop(i + 1)
    IN loop(1)

-----------------------------------------------------------------------------
(* SpecCond: EvaluateCondition applied to a condition and a namespace *)

CondPieces == {<<"{", "{">>, <<"}", "}">>, <<"&", "&">>, <<" ">>, <<"a">>, <<"b">>}

\* "a && b" and "{{a}} && {{b}}", as templates write them
WrittenConditions ==
    {<<"a", " ", "&", "&", " ", "b">>,
     <<"{", "{", "a", "}", "}", " ", "&", "&", " ", "{", "{", "b", "}", "}">>}

InitCond ==
    /\ \/ \E pieces \in SeqsUpTo(CondPieces, MaxCondPieces) : condExpr = Flatten(pieces)
       \/ condExpr \in WrittenConditions
    /\ templateVars \in Namespaces({<<"a">>, <<"b">>}, {<<>>, <<"1">>, Null})
    /\ holds = <<>>
    /\ SubstIdle /\ RenderIdle /\ FitIdle
    /\ MgrIdle /\ MergeIdle /\ ConcIdle /\ CardIdle

EvaluateConditionCall ==
    /\ holds = <<>>
    /\ holds' = <<EvaluateCondition(condExpr, templateVars)>>
    /\ UNCHANGED <<condExpr, templateVars, substVars, renderVars, fitVars,
                   mgrVars, mergeVars, concVars, cardVars>>

NextCond == EvaluateConditionCall

SpecCond == InitCond /\ [][NextCond]_vars

\* the operands of a condition: the {{ and }} decoration removed, the rest
\* split on && and each piece trimmed
Operands(cond) ==
    LET bare == ReplaceAll(ReplaceAll(cond, <<"{", "{">>, <<>>), <<"}", "}">>, <<>>)
        parts == Split(bare, <<"&", "&">>, <<>>)
    IN {TrimSpace(parts[i]) : i \in DOMAIN parts}

C16_BlankIsTrue ==
    (holds # <<>> /\ TrimSpace(condExpr) = <<>>) => holds[1] = TRUE


-----------------------------------------------------------------------------
(* CreateFittedImage.  Sizes are whole pixels; a scale is the fraction      *)
(* num/den and the arithmetic on it is exact.  The result says where the    *)
(* image lands in the region-sized context: it is drawn under the scale     *)
(* with its top-left corner at the whole image pixel (x, y), that is at     *)
(* (x*num/den, y*num/den) in the region, where it is iw*num/den wide and    *)
(* ih*num/den high.                                                          *)

\* largest image or region side
MaxDim == 4

Fraction(num, den) == [num |-> num, den |-> den]

Fitted(scale, x, y) == [scale |-> scale, x |-> x, y |-> y]

\* DrawImageAnchored(img, ax, ay, 0.5, 0.5): the corner is the anchor less
\* int(0.5 * size)
AnchoredCorner(anchor, size) == anchor - (size \div 2)

RECURSIVE CreateFittedImage(_, _, _)
CreateFittedImage(image, rgn, fitMode) ==
    LET scaleX == Fraction(rgn.width, image.width)
        scaleY == Fraction(rgn.height, image.height)
        \* int(drawX/scale + imgWidth/2), drawX == (regionWidth - imgWidth*scale) / 2
        scaledAnchor(scale, regionSide) == (regionSide * scale.den) \div (2 * scale.num)
        scaled(scale) ==
            Fitted(scale,
                   AnchoredCorner(scaledAnchor(scale, rgn.width), image.width),
                   AnchoredCorner(scaledAnchor(scale, rgn.height), image.height))
    IN CASE fitMode = <<"fill">> ->
              scaled(IF scaleY.num * scaleX.den > scaleX.num * scaleY.den
                     THEN scaleY ELSE scaleX)
         [] fitMode = <<"fit">> ->
              scaled(IF scaleY.num * scaleX.den < scaleX.num * scaleY.den
                     THEN scaleY ELSE scaleX)
         [] fitMode = <<"stretch">> ->
              Fitted(Fraction(1, 1),
                     AnchoredCorner(rgn.width \div 2, image.width),
                     AnchoredCorner(rgn.height \div 2, image.height))
         [] fitMode = <<"center">> ->
              \* int(drawX + imgWidth/2), drawX == (regionWidth - imgWidth) / 2
              Fitted(Fraction(1, 1),
                     AnchoredCorner(rgn.width \div 2, image.width),
                     AnchoredCorner(rgn.height \div 2, image.height))
         [] OTHER -> CreateFittedImage(image, rgn, <<"fill">>)

-----------------------------------------------------------------------------
(* SpecFit: CreateFittedImage on every image and region of positive size *)

FitModes == {<<"fill">>, <<"fit">>, <<"stretch">>, <<"center">>, <<"cover">>}

ImageSize(w, h) == [width |-> w, height |-> h]

InitFit ==
    /\ \E w, h \in 1..MaxDim : fitImg = ImageSize(w, h)
    /\ \E w, h \in 1..MaxDim : fitRegion = [x |-> 0, y |-> 0, width |-> w, height |-> h]
    /\ fitted = <<>>
    /\ templateVars = <<>>
    /\ SubstIdle /\ CondIdle /\ RenderIdle
    /\ MgrIdle /\ MergeIdle /\ ConcIdle /\ CardIdle

CreateFittedImageCall(fitMode) ==
    /\ fitted = <<>>
    /\ fitted' = <<[mode |-> fitMode,
                    image |-> CreateFittedImage(fitImg, fitRegion, fitMode)]>>
    /\ UNCHANGED <<fitImg, fitRegion, templateVars, substVars, condVars, renderVars,
                   mgrVars, mergeVars, concVars, cardVars>>

NextFit == \E fitMode \in FitModes : CreateFittedImageCall(fitMode)

SpecFit == InitFit /\ [][NextFit]_vars

\* C20: in fit mode the image, scaled by min(rw/iw, rh/ih), is centred and
\* does not exceed the region on either axis; in fill mode the image, scaled
\* by max(rw/iw, rh/ih), is centred and covers the region on both axes.
\* Lengths are multiplied by the scale's denominator.
C20_FitWithinFillCovers ==
    fitted # <<>> =>
      LET f == fitted[1].image
          num == f.scale.num
          den == f.scale.den
          left == f.x * num
          top == f.y * num
          right == (f.x + fitImg.width) * num
          bottom == (f.y + fitImg.height) * num
          rw == fitRegion.width * den
          rh == fitRegion.height * den
          centred == left + right = rw /\ top + bottom = rh
          minScale == \/ num * fitImg.width = rw /\ num * fitImg.height <= rh
                      \/ num * fitImg.height = rh /\ num * fitImg.width <= rw
          maxScale == \/ num * fitImg.width = rw /\ num * fitImg.height >= rh
                      \/ num * fitImg.height = rh /\ num * fitImg.width >= rw
      IN /\ fitted[1].mode = <<"fit">> =>
               /\ minScale
               /\ left >= 0 /\ top >= 0 /\ right <= rw /\ bottom <= rh
               /\ centred
         /\ fitted[1].mode = <<"fill">> =>
               /\ maxScale
               /\ left <= 0 /\ top <= 0 /\ right >= rw /\ bottom >= rh
               /\ centred


-----------------------------------------------------------------------------
(* RenderCard, renderLayer, renderImageLayer, renderTextLayer.  A layer's   *)
(* source, content, condition, fallback and fit_mode are texts; a draw on   *)
(* the canvas is recorded with the layer it came from.                      *)

\* layers of the template that is rendered
MaxLayers == 2

\* lines of a rules text given to SeparateFooter
MaxTextLines == 4

\* lines of the body of a card file
MaxBodyLines == 2

\* entries of a directory that is walked
MaxWalk == 3

\* characters of a text given to the inline parse
MaxInline == 6

\* the longest run of # that starts a line of markdown
MaxHashes == 7

\* word wrap: the widest word, the words of a run, the runs of a line
MaxWordWidth == 2
MaxWords == 2
MaxSegments == 3

Draw(idx, layer, op, what, fitMode, image) ==
    [idx |-> idx, layer |-> layer.name, op |-> op, what |-> what,
     region |-> layer.region, fit |-> fitMode, image |-> image]

NoImage == Fitted(Fraction(0, 1), 0, 0)

Done(draws) == [err |-> <<>>, draws |-> draws]

Failed(err) == [err |-> <<err>>, draws |-> <<>>]

\* fitMode of renderImageLayer with the layer's own fit_mode ranked first
fitModeOf_layerFirst(layer, tvars) ==
    LET cardFit == <<"card.artwork.fit">>
        fitMode == IF layer.fit_mode # <<>> THEN layer.fit_mode
                   ELSE IF cardFit \in DOMAIN tvars THEN tvars[cardFit] ELSE <<>>
    IN IF fitMode = <<>> THEN <<"fill">> ELSE fitMode

\* fitMode of renderImageLayer: card.artwork.fit, then fit_mode, then fill
fitModeOf(layer, tvars) ==
    LET cardFit == <<"card.artwork.fit">>
        fitMode == IF cardFit \in DOMAIN tvars /\ tvars[cardFit] # <<>>
                   THEN tvars[cardFit] ELSE layer.fit_mode
    IN IF fitMode = <<>> THEN <<"fill">> ELSE fitMode

\* imgs: the paths LoadImage returns an image for, with the image's size;
\* for every other path it returns an error
renderImageLayer(idx, layer, tvars, imgs, order) ==
    LET source == SubstituteVariables(layer.source, tvars, order)
        fallbackPath == SubstituteVariables(layer.fallback, tvars, order)
        imagePath == IF source = <<>> /\ layer.fallback # <<>>
                     THEN fallbackPath ELSE source
        tryFallback == layer.fallback # <<>> /\ imagePath # fallbackPath
        loaded == IF imagePath \in DOMAIN imgs THEN <<imagePath>>
                  ELSE IF tryFallback /\ fallbackPath \in DOMAIN imgs
                       THEN <<fallbackPath>> ELSE <<>>
        fitMode == fitModeOf(layer, tvars)
    IN IF imagePath = <<>> THEN Failed("no image source for layer")
       ELSE IF loaded = <<>>
            THEN Done(<<Draw(idx, layer, "placeholder", imagePath, <<>>, NoImage)>>)
            ELSE Done(<<Draw(idx, layer, "image", loaded[1], fitMode,
                             CreateFittedImage(imgs[loaded[1]], layer.region, fitMode))>>)

renderTextLayer(idx, layer, tvars, order) ==
    LET content == SubstituteVariables(layer.content, tvars, order)
    IN IF content = <<>> THEN Done(<<>>)
       ELSE Done(<<Draw(idx, layer, "text", content, <<>>, NoImage)>>)

\* renderLayer that does not look at the condition
renderLayer_nocond(idx, layer, tvars, imgs, order) ==
    CASE layer.type = "image" -> renderImageLayer(idx, layer, tvars, imgs, order)
      [] layer.type = "text" -> renderTextLayer(idx, layer, tvars, order)
      [] OTHER -> Failed("unknown layer type")

renderLayer(idx, layer, tvars, imgs, order) ==
    IF layer.condition # <<>> /\ ~EvaluateCondition(layer.condition, tvars)
    THEN Done(<<>>)
    ELSE CASE layer.type = "image" -> renderImageLayer(idx, layer, tvars, imgs, order)
           [] layer.type = "text" -> renderTextLayer(idx, layer, tvars, order)
           [] OTHER -> Failed("unknown layer type")


-----------------------------------------------------------------------------
(* SpecRender: one RenderCard call, a layer at a time, then SavePNG *)

Ref(key) == placeholder(<<key>>)

RenderLayer(name, type, source, content, cond, fallback, fitMode, rgn) ==
    [Layer(name, type, source, rgn) EXCEPT
        !.content = content, !.condition = cond, !.fallback = fallback,
        !.fit_mode = fitMode]

RenderLayerPool ==
    {RenderLayer("frame", "image", <<"frames/default.png">>, <<>>, <<>>, <<>>, <<>>,
                 FullRegion),
     RenderLayer("art", "image", Ref("card.artwork"), <<>>, <<>>, <<>>, <<"stretch">>,
                 TitleRegion),
     RenderLayer("art_or_default", "image", Ref("card.artwork"), <<>>, <<>>,
                 <<"frames/default.png">>, <<"fit">>, FullRegion),
     RenderLayer("art_or_gone", "image", Ref("card.artwork"), <<>>, <<>>,
                 <<"gone.png">>, <<>>, TitleRegion),
     RenderLayer("power", "text", <<>>, Ref("mtg.power"), <<>>, <<>>, <<>>, TitleRegion),
     RenderLayer("power_box", "image", <<"frames/default.png">>, <<>>,
                 Ref("mtg.power"), <<>>, <<>>, TitleRegion),
     RenderLayer("title", "text", <<>>, <<"Bolt">>, <<" ">>, <<>>, <<>>, TitleRegion),
     RenderLayer("icon", "icon", <<>>, <<>>, <<>>, <<>>, <<>>, TitleRegion)}

\* the image files and URLs that load, with their sizes
ImageFiles ==
    [path \in {<<"frames/default.png">>, <<"art.png">>} |->
        IF path = <<"art.png">> THEN ImageSize(2, 1) ELSE ImageSize(750, 1050)]

RenderNamespaces ==
    {ns \in Namespaces({<<"card.artwork">>, <<"card.artwork.fit">>, <<"mtg.power">>},
                       {<<>>, <<"art.png">>, <<"lost.png">>, <<"fit">>, <<"cover">>,
                        <<"3">>}) :
        /\ <<"card.artwork">> \in DOMAIN ns =>
               ns[<<"card.artwork">>] \in {<<>>, <<"art.png">>, <<"lost.png">>}
        /\ <<"card.artwork.fit">> \in DOMAIN ns =>
               ns[<<"card.artwork.fit">>] \in {<<>>, <<"fit">>, <<"cover">>}
        /\ <<"mtg.power">> \in DOMAIN ns => ns[<<"mtg.power">>] \in {<<>>, <<"3">>}}

InitRender ==
    /\ cardLayers \in SeqsUpTo(RenderLayerPool, MaxLayers)
    /\ templateVars \in RenderNamespaces
    /\ images = ImageFiles
    /\ layerIdx = 0 /\ canvas = <<>> /\ saved = 0 /\ renderErr = <<>>
    /\ SubstIdle /\ CondIdle /\ FitIdle
    /\ MgrIdle /\ MergeIdle /\ ConcIdle /\ CardIdle

\* one turn of the loop over template.Layers
RenderLayerStep(order) ==
    /\ renderErr = <<>> /\ saved = 0
    /\ layerIdx < Len(cardLayers)
    /\ LET layer == cardLayers[layerIdx + 1]
           r == renderLayer(layerIdx + 1, layer, templateVars, images, order)
       IN /\ layerIdx' = layerIdx + 1
          /\ canvas' = canvas \o r.draws
          /\ renderErr' = IF r.err = <<>> THEN <<>>
                          ELSE <<[layer |-> layer.name, err |-> r.err[1]]>>
    /\ UNCHANGED <<cardLayers, images, saved, templateVars, substVars, condVars, fitVars,
                   mgrVars, mergeVars, concVars, cardVars>>

\* dc.SavePNG(outputPath) after the loop: the file is written or the write fails
SavePNG(written) ==
    /\ renderErr = <<>> /\ saved = 0
    /\ layerIdx = Len(cardLayers)
    /\ IF written THEN saved' = saved + 1 /\ UNCHANGED renderErr
       ELSE renderErr' = <<[layer |-> "", err |-> "error saving image"]>>
            /\ UNCHANGED saved
    /\ UNCHANGED <<cardLayers, images, layerIdx, canvas, templateVars, substVars,
                   condVars, fitVars, mgrVars, mergeVars, concVars, cardVars>>

NextRender ==
    \/ \E order \in RangeOrders(templateVars) : RenderLayerStep(order)
    \/ \E written \in BOOLEAN : SavePNG(written)

SpecRender == InitRender /\ [][NextRender]_vars


-----------------------------------------------------------------------------
(* Properties of RenderCard *)

\* the draws that layer number k left on the canvas
DrawsOf(k) == SelectSeq(canvas, LAMBDA d : d.idx = k)

\* layer number k carries a condition that is false under the namespace
Skipped(k) ==
    /\ cardLayers[k].condition # <<>>
    /\ ~EvaluateCondition(cardLayers[k].condition, templateVars)

\* layer number k is the one whose error ended the pass
FailedAt(k) ==
    renderErr # <<>> /\ renderErr[1].layer # "" /\ k = layerIdx

\* C17, the states of the pass: the draws on the canvas are in list order;
\* a processed layer with a false condition drew nothing and raised no
\* error; any other processed layer went to the path of its type; an error
\* names the layer it came from, which is the last one processed, and leaves
\* the image unsaved; the image is saved at most once, after the last layer
\* and without an error.
C17_PassState ==
    /\ layerIdx \in 0..Len(cardLayers)
    /\ \A i, j \in DOMAIN canvas : i < j => canvas[i].idx < canvas[j].idx
    /\ \A i \in DOMAIN canvas : canvas[i].idx \in 1..layerIdx
    /\ \A k \in 1..layerIdx :
          IF Skipped(k) THEN DrawsOf(k) = <<>> /\ ~FailedAt(k)
          ELSE /\ cardLayers[k].type = "image" =>
                      \A i \in DOMAIN DrawsOf(k) : DrawsOf(k)[i].op \in {"image", "placeholder"}
               /\ cardLayers[k].type = "text" =>
                      /\ \A i \in DOMAIN DrawsOf(k) : DrawsOf(k)[i].op = "text"
                      /\ ~FailedAt(k)
               /\ cardLayers[k].type \notin {"image", "text"} => FailedAt(k)
               /\ FailedAt(k) => DrawsOf(k) = <<>>
    /\ renderErr # <<>> =>
          /\ saved = 0
          /\ renderErr[1].layer # "" =>
                 layerIdx >= 1 /\ renderErr[1].layer = cardLayers[layerIdx].name
    /\ saved \in {0, 1}
    /\ saved = 1 => layerIdx = Len(cardLayers) /\ renderErr = <<>>

\* C17, the steps of the pass: a step handles the next layer of the list and
\* only adds draws after those already made, or it saves the image after the
\* last layer; after an error nothing more happens.
C17_PassStep ==
    /\ renderErr # <<>> => UNCHANGED <<layerIdx, canvas, saved, renderErr>>
    /\ \/ /\ layerIdx' = layerIdx + 1
          /\ saved' = saved
          /\ Len(canvas') >= Len(canvas)
          /\ SubSeq(canvas', 1, Len(canvas)) = canvas
          /\ \A i \in (Len(canvas) + 1)..Len(canvas') : canvas'[i].idx = layerIdx + 1
       \/ /\ layerIdx' = layerIdx /\ canvas' = canvas
          /\ layerIdx = Len(cardLayers)
          /\ saved = 0 /\ renderErr = <<>>
          /\ saved' = 1 \/ (saved' = 0 /\ renderErr' # <<>>)
    /\ UNCHANGED <<cardLayers, templateVars, images>>

\* C17: RenderCard is one linear pass over the layers, in list order, that
\* skips the layers whose condition is false, stops at the first layer that
\* returns an error without saving, and otherwise saves the image once
\* after the last layer.
C17_LinearPass == []C17_PassState /\ [][C17_PassStep]_vars

\* a two-layer card was saved after its first layer was skipped for a false
\* condition and its second layer was drawn
C17_Witness ==
    /\ Len(cardLayers) = 2 /\ layerIdx = 2 /\ saved = 1
    /\ Skipped(1)
    /\ Len(canvas) = 1 /\ canvas[1].idx = 2

\* C18: an image layer's asset problem is no card failure: a processed image
\* layer whose condition lets it render leaves exactly one draw and no error,
\* the image of its source if that loads, else of its fallback if that
\* loads, else one placeholder at the layer's region.
C18_AssetFailureIsolated ==
    \A k \in 1..layerIdx :
        (cardLayers[k].type = "image" /\ ~Skipped(k)) =>
            LET layer == cardLayers[k]
                order == CHOOSE o \in RangeOrders(templateVars) : TRUE
                source == SubstituteVariables(layer.source, templateVars, order)
                fallbackPath == SubstituteVariables(layer.fallback, templateVars, order)
                draws == DrawsOf(k)
            IN /\ ~FailedAt(k)
               /\ Len(draws) = 1
               /\ draws[1].region = layer.region
               /\ IF source \in DOMAIN images
                  THEN draws[1].op = "image" /\ draws[1].what = source
                  ELSE IF layer.fallback # <<>> /\ fallbackPath \in DOMAIN images
                       THEN draws[1].op = "image" /\ draws[1].what = fallbackPath
                       ELSE draws[1].op = "placeholder"

\* C19: the fit mode of a drawn image is card.artwork.fit when that key is
\* present and non-empty, else the layer's fit_mode when non-empty, else
\* fill; and a mode that is none of fill, fit, stretch, center gives the
\* fitted image that fill gives.
C19_FitModePrecedence ==
    \A i \in DOMAIN canvas :
        canvas[i].op = "image" =>
            LET layer == cardLayers[canvas[i].idx]
                cardFit == <<"card.artwork.fit">>
                mode == IF cardFit \in DOMAIN templateVars /\ templateVars[cardFit] # <<>>
                        THEN templateVars[cardFit]
                        ELSE IF layer.fit_mode # <<>> THEN layer.fit_mode
                             ELSE <<"fill">>
                size == images[canvas[i].what]
            IN /\ canvas[i].fit = mode
               /\ mode \notin {<<"fill">>, <<"fit">>, <<"stretch">>, <<"center">>} =>
                      canvas[i].image = CreateFittedImage(size, layer.region, <<"fill">>)

\* an image was drawn for a layer declaring fit_mode fit on a card whose
\* card.artwork.fit is the unknown mode cover
C19_Witness ==
    \E i \in DOMAIN canvas :
        /\ canvas[i].op = "image"
        /\ cardLayers[canvas[i].idx].fit_mode = <<"fit">>
        /\ <<"card.artwork.fit">> \in DOMAIN templateVars
        /\ templateVars[<<"card.artwork.fit">>] = <<"cover">>
        /\ canvas[i].fit = <<"cover">>


-----------------------------------------------------------------------------
(* Properties of the later claims on CreateFittedImage *)

\* C21: in stretch mode the image is scaled by rw/iw on x and by rh/ih on y,
\* so the drawn image covers exactly the region, whatever the image's size.
\* Lengths are multiplied by the scale's denominator.
C21_StretchCoversExactly ==
    (fitted # <<>> /\ fitted[1].mode = <<"stretch">>) =>
        LET f == fitted[1].image
        IN /\ f.x * f.scale.num = 0
           /\ f.y * f.scale.num = 0
           /\ (f.x + fitImg.width) * f.scale.num = fitRegion.width * f.scale.den
           /\ (f.y + fitImg.height) * f.scale.num = fitRegion.height * f.scale.den

-----------------------------------------------------------------------------
(* The parsed Card and the namespace BuildTemplateVariables makes of it.   *)
(* Keys are written with their dots as separate pieces ("mtg", ".",        *)
(* "color"), so that outer + "." + inner of a nested map and the flat key  *)
(* "mtg.color" are the same string.                                        *)

\* a value of the Metadata / optional_fields maps (interface{}): a YAML
\* string, an integer, null, or a nested map
MetaStr(s) == [kind |-> "string", str |-> s, num |-> 0, fields |-> <<>>]
MetaInt(n) == [kind |-> "int", str |-> <<>>, num |-> n, fields |-> <<>>]
MetaNil == [kind |-> "nil", str |-> <<>>, num |-> 0, fields |-> <<>>]
MetaMap(fields) == [kind |-> "map", str |-> <<>>, num |-> 0, fields |-> fields]

Card(tcg, title, body, rulesText, flavorText, metadata) ==
    [TCG |-> tcg, CardStyle |-> <<>>, Title |-> title, Type |-> <<>>,
     Rarity |-> <<>>, Set |-> <<>>, Artist |-> <<>>,
     PrintThis |-> 0, PrintTotal |-> 0,
     Body |-> body, RulesText |-> rulesText, FlavorText |-> flavorText,
     ManaCost |-> <<>>, Metadata |-> metadata]

\* strconv.Itoa: the decimal digits of n, one piece
Itoa(n) == <<ToString(n)>>

\* strings.ToLower, piece by piece: the pieces written with capitals
ToLower(s) ==
    [i \in DOMAIN s |->
        CASE s[i] \in {"Footer", "FOOTER"} -> "footer"
          [] s[i] = "Bolt" -> "bolt"
          [] s[i] = "Deals 3 damage." -> "deals 3 damage."
          [] OTHER -> s[i]]

\* strings.Join(lines, sep)
RECURSIVE JoinLines(_, _)
JoinLines(lines, sep) ==
    IF lines = <<>> THEN <<>>
    ELSE IF Len(lines) = 1 THEN lines[1]
    ELSE lines[1] \o sep \o JoinLines(Tail(lines), sep)

NewLine == <<"\n">>

SeparateFooter(content) ==
    LET lines == Split(content, NewLine, <<>>)
        markers == {i \in DOMAIN lines : TrimSpace(ToLower(lines[i])) = <<"#", "#", " ", "footer">>}
    IN IF markers = {} THEN [body |-> content, footer |-> <<>>]
       ELSE LET footerStartIndex == CHOOSE i \in markers : \A j \in markers : i <= j
                bodyLines == SubSeq(lines, 1, footerStartIndex - 1)
                footerLines == SubSeq(lines, footerStartIndex + 1, Len(lines))
                inkedBody == {i \in DOMAIN bodyLines : TrimSpace(bodyLines[i]) # <<>>}
                inkedFooter == {i \in DOMAIN footerLines : TrimSpace(footerLines[i]) # <<>>}
                \* trailing empty lines of the body are dropped
                lastBody == IF inkedBody = {} THEN 0
                            ELSE CHOOSE i \in inkedBody : \A j \in inkedBody : j <= i
                \* leading empty lines of the footer are dropped
                firstFooter == IF inkedFooter = {} THEN Len(footerLines) + 1
                               ELSE CHOOSE i \in inkedFooter : \A j \in inkedFooter : i <= j
            IN [body |-> JoinLines(SubSeq(bodyLines, 1, lastBody), NewLine),
                footer |-> JoinLines(SubSeq(footerLines, firstFooter, Len(footerLines)),
                                NewLine)]

\* vars[key] = value
Put(m, key, value) ==
    [k \in DOMAIN m \cup {key} |-> IF k = key THEN value ELSE m[k]]

\* the type switch that writes one metadata or optional value: a string as
\* it is, an int through Itoa, nil not at all (nested maps are handled by
\* the caller)
putValue(m, key, value) ==
    CASE value.kind = "string" -> Put(m, key, value.str)
      [] value.kind = "int" -> Put(m, key, Itoa(value.num))
      [] OTHER -> m

Dot == <<".">>

\* one pass of a range loop over a map whose writes go to distinct keys, so
\* that the order of the visit does not matter
RECURSIVE putAll(_, _, _, _)
putAll(m, source, prefix, skip) ==
    IF DOMAIN source \ skip = {} THEN m
    ELSE LET key == CHOOSE k \in DOMAIN source \ skip : TRUE
         IN putAll(putValue(m, prefix \o key, source[key]), source, prefix,
                   skip \cup {key})

\* "Add all metadata fields": range card.Metadata in the given order; a
\* nested map is flattened to outer.inner keys, card.artwork skipped
RECURSIVE addMetadata(_, _, _, _)
addMetadata(m, metadata, order, i) ==
    IF i > Len(order) THEN m
    ELSE LET key == order[i]
             value == metadata[key]
             next == IF value.kind = "map"
                     THEN putAll(m, value.fields, key \o Dot,
                                 IF key = <<"card">> THEN {<<"artwork">>} ELSE {})
                     ELSE putValue(m, key, value)
         IN addMetadata(next, metadata, order, i + 1)

\* "Add artwork from metadata if present": card: {artwork: "url"} or
\* card: {artwork: {url: ..., fit: ...}}
addArtwork(m, metadata) ==
    IF /\ <<"card">> \in DOMAIN metadata
       /\ metadata[<<"card">>].kind = "map"
       /\ <<"artwork">> \in DOMAIN metadata[<<"card">>].fields
    THEN LET artwork == metadata[<<"card">>].fields[<<"artwork">>]
             field(name) == IF name \in DOMAIN artwork.fields
                            THEN artwork.fields[name] ELSE MetaNil
         IN IF artwork.kind = "string"
            THEN Put(m, <<"card", ".", "artwork">>, artwork.str)
            ELSE IF artwork.kind = "map"
            THEN LET withUrl == IF field(<<"url">>).kind = "string"
                                THEN Put(m, <<"card", ".", "artwork">>,
                                         field(<<"url">>).str)
                                ELSE m
                 IN IF field(<<"fit">>).kind = "string"
                    THEN Put(withUrl, <<"card", ".", "artwork", ".", "fit">>,
                             field(<<"fit">>).str)
                    ELSE withUrl
            ELSE m
    ELSE m

\* BuildTemplateVariables(card, template) when range visits card.Metadata in
\* the given order
BuildTemplateVariables(cardv, template, order) ==
    LET body == IF cardv.RulesText = <<>> THEN cardv.Body ELSE cardv.RulesText
        split == SeparateFooter(body)
        footer == IF cardv.FlavorText # <<>> /\ split.footer = <<>>
                  THEN cardv.FlavorText ELSE split.footer
        basic == (<<"card", ".", "title">> :> cardv.Title)
                 @@ (<<"card", ".", "type">> :> cardv.Type)
                 @@ (<<"card", ".", "rarity">> :> cardv.Rarity)
                 @@ (<<"card", ".", "set">> :> cardv.Set)
                 @@ (<<"card", ".", "artist">> :> cardv.Artist)
                 @@ (<<"card", ".", "body">> :> split.body)
                 @@ (<<"card", ".", "footer">> :> footer)
                 @@ (<<"card", ".", "rules_text">> :> cardv.RulesText)
                 @@ (<<"card", ".", "flavor_text">> :> cardv.FlavorText)
                 @@ (<<"card", ".", "mana_cost">> :> cardv.ManaCost)
                 @@ (<<"card", ".", "print_this">> :> Itoa(cardv.PrintThis))
                 @@ (<<"card", ".", "print_total">> :> Itoa(cardv.PrintTotal))
        withMetadata == addMetadata(addArtwork(basic, cardv.Metadata),
                                    cardv.Metadata, order, 1)
        withTokens == putAll(withMetadata,
                             [k \in DOMAIN template.style_tokens |->
                                 MetaStr(template.style_tokens[k])],
                             <<"style_tokens", ".">>, {})
        withOptional == putAll(withTokens, template.optional, <<>>, {})
    IN Put(Put(withOptional, <<"template_dir">>, template.templateDir),
           <<"icon_dir">>,
           \* filepath.Join(template.TemplateDir, "icons")
           IF template.templateDir = <<>> THEN <<"icons">>
           ELSE template.templateDir \o <<"/", "icons">>)

-----------------------------------------------------------------------------
(* Template.ValidateCard *)

hasNestedField(cardv, section, field) ==
    /\ section \in DOMAIN cardv.Metadata
    /\ cardv.Metadata[section].kind = "map"
    /\ field \in DOMAIN cardv.Metadata[section].fields
    /\ LET value == cardv.Metadata[section].fields[field]
       IN IF value.kind = "string" THEN value.str # <<>> ELSE value.kind # "nil"

hasField(cardv, field) ==
    LET typed(v, name) == v # <<>> \/ hasNestedField(cardv, <<"card">>, <<name>>)
    IN CASE field = <<"card", ".", "tcg">> -> typed(cardv.TCG, "tcg")
         [] field = <<"card", ".", "cardstyle">> -> typed(cardv.CardStyle, "cardstyle")
         [] field = <<"card", ".", "title">> -> typed(cardv.Title, "title")
         [] field = <<"card", ".", "type">> -> typed(cardv.Type, "type")
         [] field = <<"card", ".", "rarity">> -> typed(cardv.Rarity, "rarity")
         [] field = <<"card", ".", "set">> -> typed(cardv.Set, "set")
         [] field = <<"card", ".", "artist">> -> typed(cardv.Artist, "artist")
         [] OTHER ->
              \* the flat key only has to exist in the map
              \/ field \in DOMAIN cardv.Metadata
              \/ LET parts == Split(field, Dot, <<>>)
                 IN Len(parts) = 2 /\ hasNestedField(cardv, parts[1], parts[2])

\* ValidateCard over t.Required as a list: <<>> for nil, else the error
ValidateCard(template, cardv) ==
    LET missing == {i \in DOMAIN template.required :
                       ~hasField(cardv, template.required[i])}
    IN IF cardv.TCG # template.tcg
       THEN <<<<"card TCG '">> \o cardv.TCG \o <<"' doesn't match template TCG '">>
              \o template.tcg \o <<"'">>>>
       ELSE IF missing # {}
       THEN <<<<"required field '">>
              \o template.required[CHOOSE i \in missing : \A j \in missing : i <= j]
              \o <<"' is missing">>>>
       ELSE <<>>

-----------------------------------------------------------------------------
(* Parser.ParseFile: frontmatter, parseBodyContent, setDefaults.  A file   *)
(* is the lines its scanner yields; characters the parser looks at ("#",   *)
(* "-", "*", ">", ":", ".", "_", " ") are pieces of their own.             *)

HasSuffix(s, suffix) ==
    Len(s) >= Len(suffix) /\ SubSeq(s, Len(s) - Len(suffix) + 1, Len(s)) = suffix

\* filepath.Ext: the suffix of the base name that starts at its last dot
Ext(base) ==
    LET dots == {i \in DOMAIN base : base[i] = "."}
    IN IF dots = {} THEN <<>>
       ELSE SubSeq(base, CHOOSE i \in dots : \A j \in dots : j <= i, Len(base))

\* strings.ToUpper(titleText[:1]) + titleText[1:]
ToUpperFirst(s) ==
    IF s = <<>> THEN s
    ELSE [s EXCEPT ![1] = CASE @ = "bolt" -> "Bolt"
                            [] @ = "my" -> "My"
                            [] @ = "notes" -> "Notes"
                            [] OTHER -> @]

Rule == <<"-", "-", "-">>

\* yaml.Unmarshal of a block of flat "key: value" lines: the mapping, or an
\* error for a line that is no mapping entry and for a key given twice
Unmarshal(lines) ==
    LET entry(i) == Split(lines[i], <<":", " ">>, <<>>)
        written == {i \in DOMAIN lines : lines[i] # <<>>}
        bad == {i \in written : Len(entry(i)) # 2 \/ entry(i)[1] = <<>>}
        twice == {i \in written \ bad :
                     \E j \in written \ bad : j # i /\ entry(j)[1] = entry(i)[1]}
    IN IF bad # {} \/ twice # {} THEN [err |-> TRUE, m |-> <<>>]
       ELSE [err |-> FALSE,
             m |-> [key \in {entry(i)[1] : i \in written} |->
                       LET value == entry(CHOOSE i \in written : entry(i)[1] = key)[2]
                       IN IF value = <<>> THEN MetaNil ELSE MetaStr(value)]]

\* the loop of parseBodyContent over the lines still to read; panic: the
\* slice line[4 : len(line)-2] of a "> **" line shorter than six bytes
RECURSIVE parseBodyLines(_, _, _, _, _)
parseBodyLines(cardv, lines, rulesLines, flavorLines, inFlavorSection) ==
    IF lines = <<>>
    THEN [panic |-> FALSE,
          card |-> [cardv EXCEPT !.RulesText = JoinLines(rulesLines, <<"\n", "\n">>),
                                 !.FlavorText = JoinLines(flavorLines, NewLine)]]
    ELSE LET line == TrimSpace(Head(lines))
             rest == Tail(lines)
             n == Len(line)
         IN IF cardv.Title = <<>> /\ HasPrefixAt(line, 1, <<"#", " ">>)
            THEN parseBodyLines([cardv EXCEPT !.Title = TrimSpace(SubSeq(line, 3, n))],
                                rest, rulesLines, flavorLines, inFlavorSection)
            ELSE IF /\ HasPrefixAt(line, 1, <<">", " ", "{", "{">>)
                    /\ HasSuffix(line, <<"}", "}">>)
            THEN parseBodyLines(
                     IF cardv.ManaCost = <<>>
                     THEN [cardv EXCEPT !.ManaCost = TrimSpace(SubSeq(line, 3, n))]
                     ELSE cardv,
                     rest, rulesLines, flavorLines, inFlavorSection)
            ELSE IF /\ HasPrefixAt(line, 1, <<">", " ", "*", "*">>)
                    /\ HasSuffix(line, <<"*", "*">>)
            THEN IF cardv.Type # <<>>
                 THEN parseBodyLines(cardv, rest, rulesLines, flavorLines,
                                     inFlavorSection)
                 ELSE IF n < 6 THEN [panic |-> TRUE, card |-> cardv]
                 ELSE parseBodyLines(
                          [cardv EXCEPT !.Type = TrimSpace(SubSeq(line, 5, n - 2))],
                          rest, rulesLines, flavorLines, inFlavorSection)
            ELSE IF HasPrefixAt(line, 1, Rule)
            THEN parseBodyLines(cardv, rest, rulesLines, flavorLines, TRUE)
            ELSE IF line = <<>> \/ HasPrefixAt(line, 1, <<"#">>)
            THEN parseBodyLines(cardv, rest, rulesLines, flavorLines, inFlavorSection)
            ELSE IF inFlavorSection
            THEN parseBodyLines(cardv, rest, rulesLines,
                     IF HasPrefixAt(line, 1, <<"*">>) /\ HasSuffix(line, <<"*">>) /\ n > 2
                     THEN Append(flavorLines, SubSeq(line, 2, n - 1))
                     ELSE flavorLines,
                     inFlavorSection)
            ELSE parseBodyLines(cardv, rest, Append(rulesLines, line), flavorLines,
                                inFlavorSection)

parseBodyContent(cardv) ==
    parseBodyLines(cardv, Split(cardv.Body, NewLine, <<>>), <<>>, <<>>, FALSE)

\* setDefaults; filePath is the base name of the file
setDefaults(cardv, filePath) ==
    LET nameWithoutExt == SubSeq(filePath, 1, Len(filePath) - Len(Ext(filePath)))
        titleText == ReplaceAll(nameWithoutExt, <<"_">>, <<" ">>)
    IN [cardv EXCEPT
           !.Title = IF @ = <<>> THEN ToUpperFirst(titleText) ELSE @,
           !.PrintThis = IF @ = 0 THEN 1 ELSE @,
           !.PrintTotal = IF @ = 0 THEN 1 ELSE @,
           !.Rarity = IF @ = <<>> THEN <<"common">> ELSE @,
           !.Set = IF @ = <<>> THEN <<"Unknown">> ELSE @,
           !.Artist = IF @ = <<>> THEN <<"Unknown Artist">> ELSE @,
           !.TCG = IF @ = <<>> THEN <<"mtg">> ELSE @]

\* ParseFile of a file that can be opened: [err, panic, card]
ParseFile(file) ==
    LET lines == file.lines
        fenced == lines # <<>> /\ lines[1] = Rule
        closers == {i \in 2..Len(lines) : lines[i] = Rule}
        closer == IF closers = {} THEN Len(lines) + 1
                  ELSE CHOOSE i \in closers : \A j \in closers : i <= j
        frontmatterLines == IF fenced THEN SubSeq(lines, 2, closer - 1) ELSE <<>>
        bodyLines == IF fenced THEN SubSeq(lines, closer + 1, Len(lines))
                     ELSE IF lines = <<>> THEN <<<<>>>> ELSE lines
        yaml == IF Len(frontmatterLines) > 0 THEN Unmarshal(frontmatterLines)
                ELSE [err |-> FALSE, m |-> <<>>]
        field(name) == IF <<"card", ".", name>> \in DOMAIN yaml.m
                       THEN yaml.m[<<"card", ".", name>>].str ELSE <<>>
        decoded == [Card(field("tcg"), field("title"), JoinLines(bodyLines, NewLine),
                         <<>>, <<>>, yaml.m)
                       EXCEPT !.Type = field("type"), !.Rarity = field("rarity"),
                              !.Set = field("set"), !.Artist = field("artist")]
        scanned == parseBodyContent(decoded)
    IN IF yaml.err
       THEN [err |-> <<"error parsing YAML frontmatter">>, panic |-> FALSE,
             card |-> <<>>]
       ELSE IF scanned.panic THEN [err |-> <<>>, panic |-> TRUE, card |-> <<>>]
       ELSE [err |-> <<>>, panic |-> FALSE,
             card |-> setDefaults(scanned.card, file.name)]

\* the loop of RenderCard over template.Layers from layer i on, stopping at
\* the first error
RECURSIVE renderLayers(_, _, _, _, _)
renderLayers(layers, i, tvars, order, draws) ==
    IF i > Len(layers) THEN [err |-> <<>>, draws |-> draws]
    ELSE LET r == renderLayer(i, layers[i], tvars, <<>>, order)
         IN IF r.err # <<>>
            THEN [err |-> <<[layer |-> layers[i].name, err |-> r.err[1]]>>,
                  draws |-> draws]
            ELSE renderLayers(layers, i + 1, tvars, order, draws \o r.draws)

-----------------------------------------------------------------------------
(* Specification SpecCard: ValidateCard and BuildTemplateVariables on a    *)
(* parsed card and a resolved template                                     *)

\* the lines a rules text is made of, and the body of the documented example
FooterLinePool ==
    {<<>>, <<"line1">>, <<"#", "#", " ", "Footer">>, <<" ", "#", "#", " ", "FOOTER", " ">>}

FooterExample ==
    <<"line1", "\n", "line2", "\n", "#", "#", " ", "Footer", "\n", "\n", "footer1", "\n">>

FooterContents ==
    {FooterExample}
        \cup {JoinLines(lines, NewLine) : lines \in SeqsUpTo(FooterLinePool, MaxTextLines)}

CardTemplate(tcg, layers, required, optional) ==
    [Template(tcg, "", Dimensions(MaxDim, MaxDim), layers, <<>>, <<>>, required, optional)
        EXCEPT !.templateDir = <<"builtin/mtg">>,
               !.style_tokens = (<<"title_color">> :> <<"#000000">>)]

FontSizeKey == <<"mtg", ".", "font_size", ".", "title">>
ColorKey == <<"mtg", ".", "color">>

\* frontmatter that gives the font size and the colour as flat keys and the
\* colour once more inside a nested mtg map
CardMetadata ==
    {m \in Namespaces({FontSizeKey, ColorKey, <<"mtg">>},
                      {MetaInt(24), MetaStr(<<"red">>), MetaStr(<<>>), MetaNil,
                       MetaMap(<<"color">> :> MetaStr(<<"blue">>)),
                       MetaMap(<<"color">> :> MetaStr(<<>>)),
                       MetaMap(<<"color">> :> MetaNil)}) :
        /\ FontSizeKey \in DOMAIN m => m[FontSizeKey] \in {MetaInt(24), MetaStr(<<>>), MetaNil}
        /\ ColorKey \in DOMAIN m => m[ColorKey] \in {MetaStr(<<"red">>), MetaStr(<<>>), MetaNil}
        /\ <<"mtg">> \in DOMAIN m => m[<<"mtg">>].kind = "map"}

RequiredLists ==
    {<<>>, <<ColorKey>>, <<FontSizeKey>>, <<<<"card", ".", "title">>>>,
     <<ColorKey, <<"card", ".", "title">>>>}

OptionalMaps ==
    {<<>>, (FontSizeKey :> MetaInt(32)) @@ (ColorKey :> MetaStr(<<"colorless">>))}

\* the template of the documented example: card.tcg and card.title
\* required, one text layer for the body and one for the footer
TextRegion == [x |-> 0, y |-> 0, width |-> MaxDim, height |-> MaxDim]

BoltTemplate ==
    CardTemplate(<<"mtg">>,
                 <<RenderLayer("body", "text", <<>>, placeholder(<<"card", ".", "body">>),
                               <<>>, <<>>, <<>>, TextRegion),
                   RenderLayer("footer", "text", <<>>,
                               placeholder(<<"card", ".", "footer">>),
                               <<>>, <<>>, <<>>, TextRegion)>>,
                 <<<<"card", ".", "tcg">>, <<"card", ".", "title">>>>, <<>>)

TcgLine == <<"card", ".", "tcg", ":", " ", "mtg">>
TitleLine == <<"card", ".", "title", ":", " ", "Bolt">>

\* what a card file starts with: nothing, a frontmatter block with or
\* without a title, an empty block, a block that is no YAML mapping, a block
\* that is not closed
FrontmatterBlocks ==
    {<<>>, <<Rule, TcgLine, TitleLine, Rule>>, <<Rule, TcgLine, Rule>>, <<Rule, Rule>>,
     <<Rule, <<"mtg">>, Rule>>, <<Rule, TitleLine>>}

BodyLinePool ==
    {<<>>, <<"#", " ", "Bolt">>, <<"Deals 3 damage.">>, <<"#", "#", " ", "Footer">>,
     <<"*", "flavor", "*">>, Rule, <<">", " ", "*", "*">>}

BoltBody ==
    << <<"#", " ", "Bolt">>, <<"Deals 3 damage.">>, <<"#", "#", " ", "Footer">>,
       <<"*", "flavor", "*">> >>

FileNames == {<<"bolt", ".", "md">>, <<".", "md">>, <<"my", "_", "card", ".", "md">>}

CardFiles ==
    {[name |-> name, lines |-> block \o body] :
        name \in FileNames, block \in FrontmatterBlocks,
        body \in {BoltBody} \cup SeqsUpTo(BodyLinePool, MaxBodyLines)}

InitCard ==
    /\ \/ /\ \E rules \in FooterContents, flavor \in {<<>>, <<"flavor">>} :
                card = Card(<<"mtg">>, <<"Bolt">>,
                            <<"whole", "\n", "#", "#", " ", "Footer", "\n", "tail">>,
                            rules, flavor, <<>>)
          /\ cardTemplate = CardTemplate(<<"mtg">>, <<>>, <<>>, <<>>)
          /\ genFile = <<>> /\ stage = "parsed"
       \/ /\ \E tcg \in {<<>>, <<"mtg">>}, title \in {<<>>, <<"Bolt">>}, m \in CardMetadata :
                card = Card(tcg, title, <<"text">>, <<"text">>, <<>>, m)
          /\ \E tcg \in {<<"mtg">>, <<"pokemon">>}, required \in RequiredLists,
                optional \in OptionalMaps :
                cardTemplate = CardTemplate(tcg, <<>>, required, optional)
          /\ genFile = <<>> /\ stage = "parsed"
       \/ /\ \E file \in CardFiles : genFile = <<file>>
          /\ card = <<>>
          /\ cardTemplate = BoltTemplate
          /\ stage = "file"
    /\ genErr = <<>> /\ dcSize = <<>>
    /\ templateVars = <<>>
    /\ TextIdle /\ WalkIdle
    /\ SubstIdle /\ CondIdle /\ RenderIdle /\ FitIdle
    /\ MgrIdle /\ MergeIdle /\ ConcIdle

\* card, err := g.metadataParser.ParseFile(filePath)
ParseFileCall ==
    /\ stage = "file"
    /\ LET r == ParseFile(genFile[1])
       IN /\ crashed' = r.panic
          /\ genErr' = IF r.err = <<>> THEN <<>> ELSE <<<<"failed to parse">> \o r.err>>
          /\ card' = r.card
          /\ stage' = IF r.panic THEN "panicked"
                      ELSE IF r.err = <<>> THEN "parsed" ELSE "failed"
    /\ UNCHANGED <<genFile, cardTemplate, dcSize, templateVars, textVars, walk,
                   substVars, condVars, renderVars, fitVars,
                   fs, builtinTemplates, customTemplateDir, templates, ret,
                   mergeVars, concVars>>

\* template.ValidateCard(card)
ValidateCardCall ==
    /\ stage = "parsed"
    /\ genErr' = ValidateCard(cardTemplate, card)
    /\ stage' = IF genErr' = <<>> THEN "validated" ELSE "failed"
    /\ UNCHANGED <<genFile, card, cardTemplate, dcSize, templateVars, textVars, walk,
                   substVars, condVars, renderVars, fitVars,
                   mgrVars, mergeVars, concVars>>

\* vars := r.variableProcessor.BuildTemplateVariables(card, template), called
\* on its own
BuildTemplateVariablesCall(order) ==
    /\ stage \in {"parsed", "validated"}
    /\ genFile = <<>>
    /\ templateVars' = BuildTemplateVariables(card, cardTemplate, order)
    /\ stage' = "built"
    /\ UNCHANGED <<genFile, card, cardTemplate, genErr, dcSize, textVars, walk,
                   substVars, condVars, renderVars, fitVars,
                   mgrVars, mergeVars, concVars>>

\* the orders in which the range loop of SubstituteVariables can visit the
\* keys that matter to the layers' texts: a key whose placeholder occurs in
\* none of them is replaced nowhere, as long as no value brings braces of
\* its own (then every key matters); the layers' texts do not nest braces
PlaceholderOrders(layers, tvars) ==
    LET texts == {layers[i].content : i \in DOMAIN layers}
                     \cup {layers[i].source : i \in DOMAIN layers}
                     \cup {layers[i].fallback : i \in DOMAIN layers}
        braces == \E k \in DOMAIN tvars : \E i \in DOMAIN tvars[k] : tvars[k][i] \in {"{", "}"}
        named == {k \in DOMAIN tvars : \E t \in texts : Contains(t, placeholder(k))}
    IN RangeOrders([k \in (IF braces THEN DOMAIN tvars ELSE named) |-> tvars[k]])

\* g.renderer.RenderCard(card, template, outputPath): the context, the
\* namespace, every layer in order, SavePNG
RenderCardCall(order, written) ==
    /\ stage = "validated"
    /\ genFile # <<>>
    /\ dcSize' = <<cardTemplate.dimensions.width, cardTemplate.dimensions.height>>
    /\ LET tvars == BuildTemplateVariables(card, cardTemplate, order)
       IN \E visit \in PlaceholderOrders(cardTemplate.layers, tvars) :
              LET r == renderLayers(cardTemplate.layers, 1, tvars, visit, <<>>)
              IN /\ templateVars' = tvars
                 /\ canvas' = r.draws
                 /\ renderErr' = IF r.err # <<>> THEN r.err
                                 ELSE IF written THEN <<>>
                                 ELSE <<[layer |-> "", err |-> "error saving image"]>>
                 /\ saved' = IF r.err = <<>> /\ written THEN saved + 1 ELSE saved
    /\ genErr' = IF renderErr' = <<>> THEN <<>> ELSE <<<<"failed to render card">>>>
    /\ stage' = IF renderErr' = <<>> THEN "rendered" ELSE "failed"
    /\ UNCHANGED <<genFile, card, cardTemplate, textVars, walk,
                   cardLayers, images, layerIdx, substVars, condVars, fitVars,
                   mgrVars, mergeVars, concVars>>

\* the orders in which range can visit the metadata of the parsed card
MetadataOrders ==
    IF stage \in {"parsed", "validated"} THEN RangeOrders(card.Metadata) ELSE {}

NextCard ==
    \/ ParseFileCall
    \/ ValidateCardCall
    \/ \E order \in MetadataOrders : BuildTemplateVariablesCall(order)
    \/ \E order \in MetadataOrders, written \in BOOLEAN : RenderCardCall(order, written)

SpecCard == InitCard /\ [][NextCard]_vars

\* a line that is empty once its white space is trimmed
BlankLine(line) == TrimSpace(line) = <<>>

\* the lines without their leading and trailing blank lines
RECURSIVE TrimBlankLines(_)
TrimBlankLines(lines) ==
    IF lines = <<>> THEN <<>>
    ELSE IF BlankLine(Head(lines)) THEN TrimBlankLines(Tail(lines))
    ELSE IF BlankLine(lines[Len(lines)])
    THEN TrimBlankLines(SubSeq(lines, 1, Len(lines) - 1))
    ELSE lines

\* C22: the body is the lines before the first "## Footer" line and the
\* footer the lines after it, each without its leading and trailing blank
\* lines; without a marker line the body is the whole content and the footer
\* is the parsed flavor text
C22_SeparateFooter ==
    (stage = "built" /\ card.Metadata = <<>> /\ card.RulesText # <<>>) =>
        LET lines == Split(card.RulesText, NewLine, <<>>)
            markers == {i \in DOMAIN lines :
                           TrimSpace(ToLower(lines[i])) = <<"#", "#", " ", "footer">>}
            first == CHOOSE i \in markers : \A j \in markers : i <= j
        IN IF markers = {}
           THEN /\ templateVars[<<"card", ".", "body">>] = card.RulesText
                /\ templateVars[<<"card", ".", "footer">>] = card.FlavorText
           ELSE /\ templateVars[<<"card", ".", "body">>] =
                       JoinLines(TrimBlankLines(SubSeq(lines, 1, first - 1)), NewLine)
                /\ templateVars[<<"card", ".", "footer">>] =
                       LET after == JoinLines(TrimBlankLines(
                                        SubSeq(lines, first + 1, Len(lines))), NewLine)
                       IN IF after = <<>> THEN card.FlavorText ELSE after

\* the values the card's metadata gives for a namespace key: the flat key's
\* value and the value of outer.inner in a nested map
Supplied(cardv, key) ==
    LET text(value) == IF value.kind = "int" THEN Itoa(value.num) ELSE value.str
        given(value) == IF value.kind \in {"string", "int"} THEN {text(value)} ELSE {}
        parts == Split(key, Dot, <<>>)
        flat == IF key \in DOMAIN cardv.Metadata THEN given(cardv.Metadata[key]) ELSE {}
        nested == IF /\ Len(parts) = 2
                     /\ parts[1] \in DOMAIN cardv.Metadata
                     /\ cardv.Metadata[parts[1]].kind = "map"
                     /\ parts[2] \in DOMAIN cardv.Metadata[parts[1]].fields
                  THEN given(cardv.Metadata[parts[1]].fields[parts[2]])
                  ELSE {}
    IN flat \cup nested

\* C23: a key that the card's metadata supplies and that is also an optional
\* field of the template holds the card's value in the namespace; the
\* template default is the value only when the card does not supply the key
C23_OptionalIsFallback ==
    stage = "built" =>
        \A key \in DOMAIN cardTemplate.optional :
            IF Supplied(card, key) # {}
            THEN templateVars[key] \in Supplied(card, key)
            ELSE templateVars[key] \in Supplied([Metadata |-> cardTemplate.optional], key)

\* a required path resolves to a non-empty value: as a typed Card field, as
\* a flat metadata key, or one level inside the nested metadata
Resolves(cardv, path) ==
    LET filled(value) == IF value.kind = "string" THEN value.str # <<>>
                         ELSE value.kind # "nil"
        parts == Split(path, Dot, <<>>)
    IN \/ path = <<"card", ".", "tcg">> /\ cardv.TCG # <<>>
       \/ path = <<"card", ".", "title">> /\ cardv.Title # <<>>
       \/ path \in DOMAIN cardv.Metadata /\ filled(cardv.Metadata[path])
       \/ /\ Len(parts) = 2
          /\ parts[1] \in DOMAIN cardv.Metadata
          /\ cardv.Metadata[parts[1]].kind = "map"
          /\ parts[2] \in DOMAIN cardv.Metadata[parts[1]].fields
          /\ filled(cardv.Metadata[parts[1]].fields[parts[2]])

\* C24: ValidateCard succeeds exactly when the tcg values are equal and
\* every required path resolves to a non-empty value; a tcg mismatch is
\* reported first, in an error naming both values; otherwise the error names
\* a required field that is missing
C24_ValidateCard ==
    stage \in {"validated", "failed"} =>
        LET missing == {i \in DOMAIN cardTemplate.required :
                           ~Resolves(card, cardTemplate.required[i])}
        IN IF card.TCG # cardTemplate.tcg
           THEN /\ stage = "failed"
                /\ genErr[1] = <<"card TCG '">> \o card.TCG
                                   \o <<"' doesn't match template TCG '">>
                                   \o cardTemplate.tcg \o <<"'">>
           ELSE IF missing # {}
           THEN /\ stage = "failed"
                /\ \E i \in missing :
                       genErr[1] = <<"required field '">> \o cardTemplate.required[i]
                                       \o <<"' is missing">>
           ELSE stage = "validated" /\ genErr = <<>>

\* C25: after ParseFile has succeeded the card's title and its tcg are not
\* empty, whatever the file's name, frontmatter and body are
C25_TitleAndTcgNonEmpty ==
    (genFile # <<>> /\ stage \in {"parsed", "validated", "rendered"}) =>
        card.Title # <<>> /\ card.TCG # <<>>

\* the card file of the documented example
BoltFile ==
    [name |-> <<"bolt", ".", "md">>, lines |-> <<Rule, TcgLine, TitleLine, Rule>> \o BoltBody]

\* C28: the Bolt card, parsed, validated and rendered against the template
\* with a body and a footer text layer, has a non-empty card.body and the
\* text after the "## Footer" line as card.footer; both layers draw their
\* text, no placeholder is drawn, the context has the template's dimensions
C28_BoltEndToEnd ==
    (genFile = <<BoltFile>> /\ dcSize # <<>>) =>
        /\ templateVars[<<"card", ".", "body">>] # <<>>
        /\ Contains(templateVars[<<"card", ".", "footer">>], <<"flavor">>)
        /\ \E i, j \in DOMAIN canvas :
               /\ canvas[i].layer = "body" /\ canvas[i].op = "text"
               /\ canvas[i].what # <<>>
               /\ canvas[j].layer = "footer" /\ canvas[j].op = "text"
               /\ canvas[j].what # <<>>
        /\ \A i \in DOMAIN canvas : canvas[i].op # "placeholder"
        /\ dcSize = <<cardTemplate.dimensions.width, cardTemplate.dimensions.height>>

-----------------------------------------------------------------------------
(* Specification SpecBatch: main on a directory, processDirectory's walk   *)

\* an entry that filepath.Walk visits: its base name, whether it is a
\* directory, whether Walk hands the callback an error for it, and the
\* error GenerateCard returns for it (<<>> for nil)
WalkEntry(name, isDir, walkErr, cardErr) ==
    [name |-> name, isDir |-> isDir, walkErr |-> walkErr, cardErr |-> cardErr]

WalkEntries ==
    {WalkEntry(<<"bolt", ".", "md">>, FALSE, FALSE, <<>>),
     WalkEntry(<<"bad", ".", "md">>, FALSE, FALSE, <<"card validation failed">>),
     WalkEntry(<<"notes", ".", "txt">>, FALSE, FALSE, <<>>),
     WalkEntry(<<"sub">>, TRUE, FALSE, <<>>),
     WalkEntry(<<"locked">>, TRUE, TRUE, <<>>)}

InitBatch ==
    /\ \E entries \in SeqsUpTo(WalkEntries, MaxWalk) :
           walk = [entries |-> entries, pos |-> 0, processed |-> {}, err |-> <<>>,
                   status |-> "running"]
    /\ GenIdle /\ TextIdle
    /\ templateVars = <<>>
    /\ SubstIdle /\ CondIdle /\ RenderIdle /\ FitIdle
    /\ MgrIdle /\ MergeIdle /\ ConcIdle

\* one call of the function given to filepath.Walk, on the next entry; Walk
\* goes on only while the function returns nil
WalkFn ==
    /\ walk.status = "running" /\ walk.err = <<>>
    /\ walk.pos < Len(walk.entries)
    /\ LET i == walk.pos + 1
           entry == walk.entries[i]
       IN walk' =
              IF entry.walkErr
              THEN [walk EXCEPT !.pos = i, !.err = <<"walk error">>]
              ELSE IF ~entry.isDir /\ Ext(entry.name) = <<".", "md">>
              THEN \* processFile: generator.GenerateCard(path)
                   [walk EXCEPT !.pos = i, !.processed = @ \cup {i},
                                !.err = entry.cardErr]
              ELSE [walk EXCEPT !.pos = i]
    /\ UNCHANGED <<genVars, textVars, templateVars, substVars, condVars, renderVars,
                   fitVars, mgrVars, mergeVars, concVars>>

\* processInput has returned: log.Fatalf on an error, else main returns
MainExit ==
    /\ walk.status = "running"
    /\ walk.err # <<>> \/ walk.pos = Len(walk.entries)
    /\ walk' = [walk EXCEPT !.status = IF walk.err # <<>> THEN "fatal" ELSE "done"]
    /\ UNCHANGED <<genVars, textVars, templateVars, substVars, condVars, renderVars,
                   fitVars, mgrVars, mergeVars, concVars>>

NextBatch == WalkFn \/ MainExit

SpecBatch == InitBatch /\ [][NextBatch]_vars

\* C26: when the run over a readable directory has ended, every .md file
\* under it has been processed, the ones after a failing card included, and
\* the run reports a failure exactly when some card failed
C26_BatchContinues ==
    (walk.status # "running" /\ \A i \in DOMAIN walk.entries : ~walk.entries[i].walkErr) =>
        LET cards == {i \in DOMAIN walk.entries :
                         /\ ~walk.entries[i].isDir
                         /\ Ext(walk.entries[i].name) = <<".", "md">>}
        IN /\ walk.processed = cards
           /\ walk.status = "fatal" <=> \E i \in cards : walk.entries[i].cardErr # <<>>

-----------------------------------------------------------------------------
(* TextProcessor: ProcessMarkdown and the inline parse of a line *)

\* strings.Index, counted from 1; 0 when sub does not occur
Index(s, sub) ==
    LET at == {i \in 1..Len(s) : HasPrefixAt(s, i, sub)}
    IN IF at = {} THEN 0 ELSE CHOOSE i \in at : \A j \in at : i <= j

FormattedText(content, bold, italic) ==
    [Content |-> content, Style |-> [Bold |-> bold, Italic |-> italic]]

Stars(n) == [i \in 1..n |-> "*"]

\* the marker the scan settles on: *** where the text has one, ** if one
\* starts before it, * if one starts before that; pos 0 when there is none
firstMarker(text) ==
    LET three == IF Index(text, Stars(3)) # 0
                 THEN [pos |-> Index(text, Stars(3)), markerLength |-> 3]
                 ELSE [pos |-> 0, markerLength |-> 0]
        two == IF (three.pos = 0 \/ three.pos > Index(text, Stars(2)))
                  /\ Index(text, Stars(2)) # 0
               THEN [pos |-> Index(text, Stars(2)), markerLength |-> 2]
               ELSE three
    IN IF (two.pos = 0 \/ two.pos > Index(text, Stars(1))) /\ Index(text, Stars(1)) # 0
       THEN [pos |-> Index(text, Stars(1)), markerLength |-> 1]
       ELSE two

\* parseFormattingRecursive that drops the characters of a marker with no
\* close
RECURSIVE parseFormattingRecursive_dropopen(_)
parseFormattingRecursive_dropopen(text) ==
    LET m == firstMarker(text)
        marker == Stars(m.markerLength)
        before == IF m.pos > 1
                  THEN <<FormattedText(SubSeq(text, 1, m.pos - 1), FALSE, FALSE)>>
                  ELSE <<>>
        remaining == SubSeq(text, m.pos + m.markerLength, Len(text))
        closePos == Index(remaining, marker)
        afterMarker == SubSeq(remaining, closePos + m.markerLength, Len(remaining))
    IN IF m.pos = 0
       THEN IF text # <<>> THEN <<FormattedText(text, FALSE, FALSE)>> ELSE <<>>
       ELSE IF closePos = 0
       THEN before \o <<FormattedText(remaining, FALSE, FALSE)>>
       ELSE before
            \o <<FormattedText(SubSeq(remaining, 1, closePos - 1),
                               m.markerLength \in {2, 3}, m.markerLength \in {1, 3})>>
            \o (IF afterMarker # <<>> THEN parseFormattingRecursive_dropopen(afterMarker)
                ELSE <<>>)

RECURSIVE parseFormattingRecursive(_)
parseFormattingRecursive(text) ==
    LET m == firstMarker(text)
        marker == Stars(m.markerLength)
        before == IF m.pos > 1
                  THEN <<FormattedText(SubSeq(text, 1, m.pos - 1), FALSE, FALSE)>>
                  ELSE <<>>
        remaining == SubSeq(text, m.pos + m.markerLength, Len(text))
        closePos == Index(remaining, marker)
        afterMarker == SubSeq(remaining, closePos + m.markerLength, Len(remaining))
    IN IF m.pos = 0
       THEN IF text # <<>> THEN <<FormattedText(text, FALSE, FALSE)>> ELSE <<>>
       ELSE IF closePos = 0
       THEN before \o <<FormattedText(SubSeq(text, m.pos, Len(text)), FALSE, FALSE)>>
       ELSE before
            \o <<FormattedText(SubSeq(remaining, 1, closePos - 1),
                               m.markerLength \in {2, 3}, m.markerLength \in {1, 3})>>
            \o (IF afterMarker # <<>> THEN parseFormattingRecursive(afterMarker)
                ELSE <<>>)

parseInlineFormatting(text) == parseFormattingRecursive(text)

FormattedLine(segments, type, level) ==
    [Segments |-> segments, Type |-> type, Level |-> level]

\* the header scan of ProcessMarkdown on a trimmed line that starts with #:
\* the level counted and the line as the loop leaves it
headerScan(line) ==
    LET others == {i \in DOMAIN line : line[i] # "#"}
        stop == IF others = {} THEN 0 ELSE CHOOSE i \in others : \A j \in others : i <= j
    IN IF stop = 0 THEN [level |-> Len(line), line |-> line]
       ELSE IF line[stop] = " "
       THEN [level |-> stop - 1, line |-> SubSeq(line, stop + 1, Len(line))]
       ELSE [level |-> 0, line |-> line]

\* the body of ProcessMarkdown's loop, for one line of the content
formatLine(rawLine) ==
    LET line == TrimSpace(rawLine)
        scan == headerScan(line)
    IN IF line = <<>> THEN FormattedLine(<<>>, "normal", 0)
       ELSE IF HasPrefixAt(line, 1, Rule) \/ HasPrefixAt(line, 1, Stars(3))
       THEN FormattedLine(<<>>, "hr", 0)
       ELSE IF HasPrefixAt(line, 1, <<"#">>)
       THEN IF scan.level > 0 /\ scan.level <= 6
            THEN FormattedLine(parseInlineFormatting(scan.line), "header", scan.level)
            ELSE FormattedLine(parseInlineFormatting(scan.line), "normal", 0)
       ELSE FormattedLine(parseInlineFormatting(line), "normal", 0)

ProcessMarkdown(content) ==
    LET lines == Split(content, NewLine, <<>>)
    IN [i \in DOMAIN lines |-> formatLine(lines[i])]

-----------------------------------------------------------------------------
(* Specification SpecText: one call of parseInlineFormatting or of         *)
(* ProcessMarkdown on a text                                               *)

Hashes(n) == [i \in 1..n |-> "#"]

InlineExample ==
    Stars(3) \o <<"x">> \o Stars(3) \o <<" and ">> \o Stars(2) \o <<"y">> \o Stars(2)
        \o <<" and ">> \o Stars(1) \o <<"z">> \o Stars(1)

InlineTexts ==
    {InlineExample, Stars(2) \o <<"open">>} \cup SeqsUpTo({"*", "x", " "}, MaxInline)

MarkdownLines ==
    {Hashes(n) \o rest : n \in 0..MaxHashes, rest \in SeqsUpTo({"*", "x", " ", "-"}, 3)}

MarkdownContents ==
    MarkdownLines
        \cup {first \o NewLine \o second :
                 first \in {<<>>, <<"#", " ", "x">>, Rule},
                 second \in {<<>>, <<"x">>, Stars(3), <<"#", "#">>}}

InitText ==
    /\ srcText \in InlineTexts \cup MarkdownContents
    /\ parsed = <<>>
    /\ wrapIn = <<>> /\ wrapOut = <<>>
    /\ GenIdle /\ WalkIdle
    /\ templateVars = <<>>
    /\ SubstIdle /\ CondIdle /\ RenderIdle /\ FitIdle
    /\ MgrIdle /\ MergeIdle /\ ConcIdle

parseInlineFormattingCall ==
    /\ parsed = <<>>
    /\ NewLine[1] \notin {srcText[i] : i \in DOMAIN srcText}
    /\ parsed' = <<[call |-> "parseInlineFormatting",
                    lines |-> <<FormattedLine(parseInlineFormatting(srcText), "", 0)>>]>>
    /\ UNCHANGED <<srcText, wrapIn, wrapOut, genVars, walk, templateVars, substVars,
                   condVars, renderVars, fitVars, mgrVars, mergeVars, concVars>>

ProcessMarkdownCall ==
    /\ parsed = <<>>
    /\ parsed' = <<[call |-> "ProcessMarkdown", lines |-> ProcessMarkdown(srcText)]>>
    /\ UNCHANGED <<srcText, wrapIn, wrapOut, genVars, walk, templateVars, substVars,
                   condVars, renderVars, fitVars, mgrVars, mergeVars, concVars>>

NextText == parseInlineFormattingCall \/ ProcessMarkdownCall

SpecText == InitText /\ [][NextText]_vars

\* the marker a run was written with: *** bold italic, ** bold, * italic
MarkerOf(run) ==
    Stars((IF run.Style.Bold THEN 2 ELSE 0) + (IF run.Style.Italic THEN 1 ELSE 0))

\* a run as it was written: its text between its markers
Marked(run) == MarkerOf(run) \o run.Content \o MarkerOf(run)

\* the stars a text starts with, three at most
LeadingStars(text) ==
    IF HasPrefixAt(text, 1, Stars(3)) THEN 3
    ELSE IF HasPrefixAt(text, 1, Stars(2)) THEN 2
    ELSE IF HasPrefixAt(text, 1, Stars(1)) THEN 1 ELSE 0

LeadingHashes(line) ==
    LET others == {i \in DOMAIN line : line[i] # "#"}
    IN IF others = {} THEN Len(line)
       ELSE (CHOOSE i \in others : \A j \in others : i <= j) - 1

\* C29: ProcessMarkdown gives one Line per input line, in order: an empty
\* line is normal with no runs; a line that starts with --- or *** is an hr
\* with no runs; a line that starts with n # characters, 1 <= n <= 6, and
\* then a space is a header of level n whose runs are the inline parse of
\* the text after that space; every other line is normal and its runs are
\* the inline parse of the whole line
C29_LineClasses ==
    (parsed # <<>> /\ parsed[1].call = "ProcessMarkdown") =>
        LET given == Split(srcText, NewLine, <<>>)
            out == parsed[1].lines
        IN /\ Len(out) = Len(given)
           /\ \A i \in DOMAIN given :
                  LET line == TrimSpace(given[i])
                      n == LeadingHashes(line)
                  IN out[i] =
                         IF line = <<>> THEN FormattedLine(<<>>, "normal", 0)
                         ELSE IF HasPrefixAt(line, 1, Rule) \/ HasPrefixAt(line, 1, Stars(3))
                         THEN FormattedLine(<<>>, "hr", 0)
                         ELSE IF n >= 1 /\ n <= 6 /\ HasPrefixAt(line, n + 1, <<" ">>)
                         THEN FormattedLine(
                                  parseInlineFormatting(SubSeq(line, n + 2, Len(line))),
                                  "header", n)
                         ELSE FormattedLine(parseInlineFormatting(line), "normal", 0)

-----------------------------------------------------------------------------
(* wrapFormattedSegments.  A run is the list of its words as               *)
(* strings.Fields gives them; a word is known by its measured width, and   *)
(* MeasureString of " " + word is the width of a space more.               *)

SpaceWidth == 1

\* a piece of a wrapped line: a word, with or without a space before it
Piece(word, spaced) == [word |-> word, spaced |-> spaced]

\* dc.MeasureString of a piece's content
MeasureString(piece) == piece.word + (IF piece.spaced THEN SpaceWidth ELSE 0)

\* the loops of wrapFormattedSegments from word i of segment s on
RECURSIVE wrapFrom(_, _, _, _, _, _, _)
wrapFrom(segments, s, i, maxWidth, wrappedLines, currentLine, currentLineWidth) ==
    IF s > Len(segments)
    THEN IF Len(currentLine) > 0 THEN Append(wrappedLines, currentLine) ELSE wrappedLines
    ELSE IF i > Len(segments[s])
    THEN wrapFrom(segments, s + 1, 1, maxWidth, wrappedLines, currentLine,
                  currentLineWidth)
    ELSE LET word == segments[s][i]
             \* testWord carries a space only after the first word of its run
             wordWidth == MeasureString(Piece(word, i > 1))
         IN IF currentLineWidth + wordWidth > maxWidth /\ Len(currentLine) > 0
            THEN wrapFrom(segments, s, i + 1, maxWidth,
                          Append(wrappedLines, currentLine),
                          <<Piece(word, FALSE)>>, MeasureString(Piece(word, FALSE)))
            ELSE wrapFrom(segments, s, i + 1, maxWidth, wrappedLines,
                          Append(currentLine,
                                 Piece(word, ~(i = 1 /\ Len(currentLine) = 0))),
                          currentLineWidth + wordWidth)

wrapFormattedSegments(segments, maxWidth) ==
    wrapFrom(segments, 1, 1, maxWidth, <<>>, <<>>, 0)

\* Specification SpecWrap: one call of wrapFormattedSegments
InitWrap ==
    /\ \E segments \in SeqsUpTo(SeqsUpTo(1..MaxWordWidth, MaxWords), MaxSegments),
          maxWidth \in 1..MaxDim :
           wrapIn = [segments |-> segments, maxWidth |-> maxWidth]
    /\ wrapOut = <<>>
    /\ srcText = <<>> /\ parsed = <<>>
    /\ GenIdle /\ WalkIdle
    /\ templateVars = <<>>
    /\ SubstIdle /\ CondIdle /\ RenderIdle /\ FitIdle
    /\ MgrIdle /\ MergeIdle /\ ConcIdle

wrapFormattedSegmentsCall ==
    /\ wrapOut = <<>>
    /\ wrapOut' = <<wrapFormattedSegments(wrapIn.segments, wrapIn.maxWidth)>>
    /\ UNCHANGED <<wrapIn, srcText, parsed, genVars, walk, templateVars, substVars,
                   condVars, renderVars, fitVars, mgrVars, mergeVars, concVars>>

NextWrap == wrapFormattedSegmentsCall

SpecWrap == InitWrap /\ [][NextWrap]_vars

\* totalWidth of renderWrappedFormattedLine: the sum of the widths of the
\* pieces of a wrapped line
RECURSIVE totalWidth(_)
totalWidth(line) ==
    IF line = <<>> THEN 0 ELSE MeasureString(Head(line)) + totalWidth(Tail(line))

\* C30: the words of the wrapped lines, in order, are the words of the runs;
\* no wrapped line is empty; a line starts only when the word that opens it
\* did not fit on the line before; every wrapped line of two or more words
\* has a rendered width of at most the target width
C30_WrapWithinWidth ==
    wrapOut # <<>> =>
        LET lines == wrapOut[1]
        IN /\ Flatten([k \in DOMAIN lines |->
                          [j \in DOMAIN lines[k] |-> lines[k][j].word]])
                  = Flatten(wrapIn.segments)
           /\ \A k \in DOMAIN lines :
                  /\ lines[k] # <<>>
                  /\ ~lines[k][1].spaced
                  /\ \A j \in 2..Len(lines[k]) : lines[k][j].spaced
                  /\ k > 1 => totalWidth(lines[k - 1]) + SpaceWidth + lines[k][1].word
                                  > wrapIn.maxWidth
                  /\ Len(lines[k]) >= 2 => totalWidth(lines[k]) <= wrapIn.maxWidth

====
